---- MODULE Spec2Model ----
(***************************************************************************)
(* A model of the nsm66d session daemon (nsm66d.cpp / nsm66d.hpp).         *)
(*                                                                         *)
(* The daemon is single threaded.  Its OSC handlers run to completion,     *)
(* except that the wait loops (wait_for_replies, wait_for_announce,        *)
(* wait_for_killed_clients_to_die) dispatch incoming OSC messages and reap *)
(* children, so a handler can start while another one is suspended in a    *)
(* wait loop.  The model keeps a stack of the suspended handlers; one      *)
(* action is one handler run from its entry (or from the end of a wait     *)
(* slice) to its return or to its next wait slice.                         *)
(*                                                                         *)
(* Strings that the code takes apart or puts together are tuples of their  *)
(* parts: a client id is its five characters, a session path is            *)
(* <<root, name>>, a project path is <<session path, name, id>>.           *)
(* The narration sent with gui_msg ("/nsm/gui/server/message") is left     *)
(* out; every other message the modelled code sends is recorded in out.    *)
(***************************************************************************)
EXTENDS Integers, Sequences, FiniteSets, TLC

(* ------------------------------ bounds -------------------------------- *)
MaxClients == 2
OpsMaxClients == 1
MaxPid == 3
MaxDepth == 2
MaxReplySlices == 1
MaxAnnounceSlices == 1
MaxKillSlices == 1
MaxKnownPorts == 3
MaxNotifications == 2

(* ------------------------- program constants -------------------------- *)
NSM_API_VERSION_MAJOR == 1

(* ------------------------------ domains ------------------------------- *)
Daemons == {"d1", "d2"}

NoAddr == [host |-> 0, port |-> 0]
Addrs == {[host |-> 1, port |-> 1], [host |-> 2, port |-> 1], [host |-> 1, port |-> 2]}
GuiAddrs == {[host |-> 1, port |-> 2]}
ClientAddrs == Addrs \ GuiAddrs
Controllers == {[host |-> 2, port |-> 1]}
BroadcastPaths == {<<"nsm", "client", "save">>, <<"app", "sync">>}

NameX == <<"x">>
NameY == <<"y">>
NoName == << >>

IdA == <<"n", "A", "A", "A", "A">>
IdB == <<"n", "A", "A", "A", "B">>
IdC == <<"n", "A", "A", "A", "C">>
IdPool == {IdA, IdB, IdC}
Upper == {"A", "B", "C"}

Majors == {NSM_API_VERSION_MAJOR, NSM_API_VERSION_MAJOR + 1}
Pids == 1..MaxPid

SessionRoot == "root"
(* the directories below the session root, in the order fts visits them; *)
(* "s2/a" lies in the directory of s2                                     *)
SessionDirs == <<"s1", "s2", "s2/a", "s3", "s4", "s5">>
SessionNames == {SessionDirs[k] : k \in 1..Len(SessionDirs)}
ParentDir(s) == IF s = "s2/a" THEN "s2" ELSE SessionRoot
NoPath == << >>
NoFile == <<[name |-> << >>, exe |-> << >>, id |-> << >>]>>

(* outcomes of undefined behaviour: the usual build, or the process dies *)
UB == {"benign", "abort"}

Row(name, exe, id) == [name |-> name, exe |-> exe, id |-> id]

(* the session files on disk when the daemons start *)
InitFiles ==
    [s \in SessionNames |->
        IF s = "s1" THEN <<Row(NameX, NameX, IdA), Row(NameY, NameY, IdB)>>
        ELSE IF s = "s2" THEN <<Row(NameY, NameY, IdA)>>
        ELSE IF s = "s4" THEN <<Row(NameX, NameY, IdC)>>
        ELSE IF s = "s2/a" THEN <<Row(NameX, NameX, IdB)>>
        ELSE NoFile]

VARIABLES
    s_client_list,          \* per daemon: the sequence of client records
    s_session_path,         \* per daemon: NoPath or <<root, name>>
    s_session_name,         \* per daemon: "" or the simple name
    s_pending_operation,    \* per daemon: the latch
    s_gui_is_active,        \* per daemon
    s_gui_address,          \* per daemon
    stack,                  \* per daemon: suspended handlers, innermost last
    aborted,                \* per daemon: the process died of undefined behaviour
    procs,                  \* per daemon: pid -> "free" | "child" | "other"
    locks,                  \* the lock files in the shared runtime directory
    files,                  \* session name -> manifest rows, or NoFile
    out,                    \* what the last observed step sent
    last,                   \* the last observed step: daemon, event, source
    quitting,               \* per daemon: the running pids commanded to quit
    s_daemon_file,          \* per daemon: the daemon file exists
    exited,                 \* per daemon: the process has called exit(0)
    g_patch_list,           \* jackpatch: the patch records
    g_known_ports,          \* jackpatch: the known ports
    g_project_file,         \* jackpatch: "" or the project of the patch file
    ringbuffer,             \* jackpatch: the port notifications not yet read
    jack_active,            \* jackpatch: jack_activate has been called
    jack_ports,             \* the ports that are live in the JACK graph
    jack_connections,       \* the connections of the JACK graph
    patch_files,            \* project -> the lines of its patch file, or NoPatchFile
    jackpatch_aborted       \* jackpatch died of undefined behaviour

vars == <<s_client_list, s_session_path, s_session_name, s_pending_operation,
          s_gui_is_active, s_gui_address, stack, aborted, procs, locks, files,
          out, last, quitting, s_daemon_file, exited,
          g_patch_list, g_known_ports, g_project_file, ringbuffer, jack_active,
          jack_ports, jack_connections, patch_files, jackpatch_aborted>>

(* the state of jackpatch and of the JACK graph *)
jackpatch_vars ==
    <<g_patch_list, g_known_ports, g_project_file, ringbuffer, jack_active,
      jack_ports, jack_connections, patch_files, jackpatch_aborted>>

(* ------------------------- the Client class --------------------------- *)
Client(name, exe, id) ==
    [ id |-> id, name |-> name, exe |-> exe, pid |-> 0, active |-> FALSE,
      caps |-> {}, addr |-> NoAddr, pending |-> "none", status |-> "",
      errcode |-> 0, message |-> "", label |-> "", launch_error |-> FALSE,
      pre_existing |-> FALSE ]

reply_pending(c) == c.pending # "none"
is_dumb_client(c) == c.caps = {}
is_capable_of(c, cap) == cap \in c.caps
has_error(c) == c.errcode # 0

(* ----------------------------- strings -------------------------------- *)
spath_of(name) == <<SessionRoot, name>>
filename_base(path) == IF Len(path) = 0 THEN "" ELSE path[Len(path)]
relative_path(path) == path[2]
url_of(addr) == <<"osc.udp", addr.host, addr.port>>
lo_address_new_from_url(url) == [host |-> url[2], port |-> url[3]]
(* a project path that leaves the client name out *)
project_path_without_name(session_path, c) == <<session_path, c.id>>
get_client_project_path(session_path, c) == <<session_path, c.name, c.id>>
full_client_id(c) == <<c.name, c.id>>
strcompare(a, b) == a = b
strncompare(a, prefix) ==
    /\ Len(a) >= Len(prefix)
    /\ SubSeq(a, 1, Len(prefix)) = prefix
path_is_valid(name) == name # ".."
get_lock_file_name(name, path) == [name |-> name, path |-> path]

is_a_client_id(s) ==
    /\ Len(s) = 5
    /\ s[1] = "n"
    /\ \A i \in 2..5 : s[i] \in Upper

address_matches(addr1, addr2) == addr1.port = addr2.port

(* ------------------------- the state record --------------------------- *)
(* The handlers are operators from a state record to a state record.      *)
State(d) ==
    [ me |-> d, cl |-> s_client_list[d], path |-> s_session_path[d],
      name |-> s_session_name[d], op |-> s_pending_operation[d],
      gui |-> s_gui_is_active[d], gaddr |-> s_gui_address[d],
      stk |-> stack[d], dead |-> FALSE, procs |-> procs[d],
      locks |-> locks, files |-> files, out |-> << >>, ovf |-> FALSE,
      cap |-> MaxClients, dfile |-> s_daemon_file[d], exited |-> FALSE,
      slices |-> [reply |-> MaxReplySlices, announce |-> MaxAnnounceSlices,
                  killed |-> MaxKillSlices] ]

Msg(to, path, args) == [to |-> to, path |-> path, args |-> args, pid |-> 0]
Sig(pid, sig) == [to |-> NoAddr, path |-> sig, args |-> << >>, pid |-> pid]

send(S, to, path, args) == [S EXCEPT !.out = Append(@, Msg(to, path, args))]
kill(S, pid, sig) == [S EXCEPT !.out = Append(@, Sig(pid, sig))]
gui_send(S, path, args) == IF S.gui THEN send(S, S.gaddr, path, args) ELSE S
error_send(S, src, path, code) == send(S, src, "/error", <<path, code>>)
reply_send(S, src, path, text) == send(S, src, "/reply", <<path, text>>)
error_send_ex(S, src, path, code) ==
    send(S, lo_address_new_from_url(url_of(src)), "/error", <<path, code>>)
reply_send_ex(S, src, path, text) ==
    send(S, lo_address_new_from_url(url_of(src)), "/reply", <<path, text>>)
Abort(S) == [S EXCEPT !.dead = TRUE]

(* ---------------------------- lookups --------------------------------- *)
MinOf(I) == CHOOSE i \in I : \A j \in I : i <= j
FirstOf(I) == IF I = {} THEN 0 ELSE MinOf(I)
Idx(cl) == 1..Len(cl)
RemoveAt(cl, i) == SubSeq(cl, 1, i - 1) \o SubSeq(cl, i + 1, Len(cl))

get_client_by_pid(cl, pid) == FirstOf({i \in Idx(cl) : cl[i].pid = pid})
get_client_by_name(cl, name) == FirstOf({i \in Idx(cl) : cl[i].name = name})
get_client_by_id(cl, id) ==
    IF is_a_client_id(id)
    THEN FirstOf({i \in Idx(cl) : cl[i].id = id})
    ELSE get_client_by_name(cl, id)
get_client_by_name_and_id(cl, name, id) ==
    FirstOf({i \in Idx(cl) : cl[i].id = id /\ cl[i].name = name})
client_by_name(name, cl) == FirstOf({i \in Idx(cl) : cl[i].name = name})

(* address_matches builds a std::string from lo_address_get_port(c->addr()); *)
(* for a record that never announced the address is null: undefined.        *)
(* Result: the index, 0 for no client, -1 when the process dies.            *)
get_client_by_address(cl, addr, ub) ==
    LET m == FirstOf({i \in Idx(cl) : cl[i].addr # NoAddr /\ address_matches(cl[i].addr, addr)})
        n == FirstOf({i \in Idx(cl) : cl[i].addr = NoAddr})
    IN  IF n # 0 /\ (m = 0 \/ n < m) /\ ub = "abort" THEN -1 ELSE m

clients_have_errors(cl) == \E i \in Idx(cl) : cl[i].active /\ has_error(cl[i])
(* replies are waited for from every record *)
replies_still_pending_of_any(cl) == \E i \in Idx(cl) : reply_pending(cl[i])
replies_still_pending(cl) == \E i \in Idx(cl) : cl[i].active /\ reply_pending(cl[i])
number_of_reponsive_clients(cl) ==
    Cardinality({i \in Idx(cl) : cl[i].active \/ cl[i].launch_error})
killed_clients_are_alive(cl) ==
    \E i \in Idx(cl) : cl[i].pending \in {"quit", "kill"} /\ cl[i].pid > 0

(* --------------------------- processes -------------------------------- *)
FreePids(S) == {p \in Pids : S.procs[p] = "free"}

(* a death handler that forgets to clear the active flag *)
handle_client_process_death_keeping_active(S, pid, ub) ==
    LET i == get_client_by_pid(S.cl, pid) IN
    IF i = 0 THEN S
    ELSE [S EXCEPT !.cl[i].status = "stopped", !.cl[i].pending = "none", !.cl[i].pid = 0]

(* handle_client_process_death: the record is looked up by pid *)
handle_client_process_death(S, pid, ub) ==
    LET i == get_client_by_pid(S.cl, pid) IN
    IF i = 0 THEN S
    ELSE LET c == S.cl[i] IN
         IF c.pending = "quit"
         THEN LET S1 == gui_send(S, "/nsm/gui/client/status", <<c.id, "removed">>)
                  S2 == [S1 EXCEPT !.cl = RemoveAt(@, i)]
              IN  \* the deleted record is written to afterwards
                  IF ub = "abort" THEN Abort(S2) ELSE S2
         ELSE LET lbl == IF c.launch_error THEN "Launch error!" ELSE ""
                  S1 == gui_send(S, "/nsm/gui/client/label", <<c.id, lbl>>)
                  S2 == gui_send(S1, "/nsm/gui/client/status", <<c.id, "stopped">>)
              IN  [S2 EXCEPT !.cl[i] =
                      [c EXCEPT !.label = lbl, !.status = "stopped",
                                !.pending = "none", !.active = FALSE, !.pid = 0]]

(* a SIGCHLD handler that does not look at the exit status *)
handle_sigchld_ignoring_status(S, pid, kind, ub) ==
    handle_client_process_death(S, pid, ub)

(* handle_sigchld for one reaped child: exit code 255 marks a failed exec *)
handle_sigchld(S, pid, kind, ub) ==
    LET i == get_client_by_pid(S.cl, pid)
        S1 == IF i # 0 /\ kind = "exit255"
              THEN [S EXCEPT !.cl[i].launch_error = TRUE] ELSE S
    IN  handle_client_process_death(S1, pid, ub)

(* purge_dead_clients: every record whose pid is no longer running *)
RECURSIVE purge_dead_clients(_, _)
purge_dead_clients(S, ub) ==
    LET I == {i \in Idx(S.cl) : S.cl[i].pid \in Pids /\ S.procs[S.cl[i].pid] = "free"} IN
    IF S.dead \/ I = {} THEN S
    ELSE purge_dead_clients(handle_client_process_death(S, S.cl[MinOf(I)].pid, ub), ub)

(* a process ends and the daemon notices it in the same wait slice:         *)
(* handle_child_signal for its own child, purge_dead_clients for any pid    *)
process_death(S, pid, kind, ub) ==
    LET child == S.procs[pid] = "child"
        S0 == [S EXCEPT !.procs[pid] = "free"]
        S1 == IF child THEN handle_sigchld(S0, pid, kind, ub) ELSE S0
    IN  purge_dead_clients(S1, ub)

(* launch: nsm::generate_client_id is given as newid *)
launch(S, executable, clientid, newid) ==
    LET found == get_client_by_id(S.cl, clientid)
        id == IF clientid = NoName THEN newid ELSE clientid
        cl1 == IF found = 0 THEN Append(S.cl, Client(executable, executable, id)) ELSE S.cl
        i == IF found = 0 THEN Len(cl1) ELSE found
        free == FreePids(S)
    IN  IF free = {} \/ Len(cl1) > S.cap THEN [S EXCEPT !.ovf = TRUE]
        ELSE LET pid == MinOf(free)
                 c == [cl1[i] EXCEPT !.pending = "start", !.pid = pid,
                                     !.launch_error = FALSE, !.status = "launch"]
                 S1 == [S EXCEPT !.cl = [cl1 EXCEPT ![i] = c], !.procs[pid] = "child"]
                 S2 == gui_send(S1, "/nsm/gui/client/new", <<c.id, c.exe>>)
                 S3 == gui_send(S2, "/nsm/gui/client/status", <<c.id, c.status>>)
             IN  gui_send(S3, "/nsm/gui/client/label", <<c.id, "">>)

(* a save command that goes to every running client, announced or not *)
command_client_to_save_unannounced(S, i) ==
    LET c == S.cl[i] IN
    IF c.pid > 0
    THEN LET S1 == send(S, c.addr, "/nsm/client/save", << >>)
         IN  [S1 EXCEPT !.cl[i].pending = "save", !.cl[i].status = "save"]
    ELSE S

command_client_to_save(S, i) ==
    LET c == S.cl[i] IN
    IF c.active
    THEN LET S1 == send(S, c.addr, "/nsm/client/save", << >>)
             S2 == [S1 EXCEPT !.cl[i].pending = "save", !.cl[i].status = "save"]
         IN  gui_send(S2, "/nsm/gui/client/status", <<c.id, "save">>)
    ELSE IF is_dumb_client(c) /\ c.pid > 0
    THEN gui_send([S EXCEPT !.cl[i].status = "noop"],
                  "/nsm/gui/client/status", <<c.id, "noop">>)
    ELSE S

command_client_to_switch(S, i, new_client_id) ==
    LET old_client_id == S.cl[i].id
        c == [S.cl[i] EXCEPT !.id = new_client_id]
        S1 == send(S, c.addr, "/nsm/client/open",
                   <<get_client_project_path(S.path, c), S.name, full_client_id(c)>>)
        S2 == [S1 EXCEPT !.cl[i] = [c EXCEPT !.pending = "open", !.status = "switch"]]
        S3 == gui_send(S2, "/nsm/gui/client/status", <<c.id, "switch">>)
    IN  gui_send(S3, "/nsm/gui/client/switch", <<old_client_id, c.id>>)

command_client_to_stop(S, i) ==
    LET c == S.cl[i] IN
    IF c.pid > 0
    THEN LET S1 == kill([S EXCEPT !.cl[i].pending = "kill"], c.pid, "SIGTERM")
         IN  gui_send([S1 EXCEPT !.cl[i].status = "stopped"],
                      "/nsm/gui/client/status", <<c.id, "stopped">>)
    ELSE S

command_client_to_quit(S, i) ==
    LET c == S.cl[i] IN
    IF c.active
    THEN LET S1 == kill([S EXCEPT !.cl[i].pending = "quit"], c.pid, "SIGTERM")
         IN  gui_send([S1 EXCEPT !.cl[i].status = "quit"],
                      "/nsm/gui/client/status", <<c.id, "quit">>)
    ELSE IF is_dumb_client(c)
    THEN IF c.pid > 0
         THEN LET S1 == gui_send([S EXCEPT !.cl[i].status = "quit"],
                                 "/nsm/gui/client/status", <<c.id, "quit">>)
              IN  kill([S1 EXCEPT !.cl[i].pending = "quit"], c.pid, "SIGTERM")
         ELSE gui_send([S EXCEPT !.cl[i].status = "removed"],
                       "/nsm/gui/client/status", <<c.id, "removed">>)
    ELSE S

(* purge_inactive_clients: "i = erase(i)" is followed by the loop's "++i",  *)
(* so the record after an erased one is skipped; after erasing the last     *)
(* record the loop increments end(): undefined.  The usual list is          *)
(* circular, and the loop then goes on from the first record.               *)
RECURSIVE purge_inactive_from(_, _, _)
purge_inactive_from(S, i, ub) ==
    IF i > Len(S.cl) THEN S
    ELSE IF S.cl[i].active THEN purge_inactive_from(S, i + 1, ub)
    ELSE LET S1 == gui_send(S, "/nsm/gui/client/status", <<S.cl[i].id, "removed">>)
             S2 == [S1 EXCEPT !.cl = RemoveAt(@, i)]
         IN  IF i <= Len(S2.cl) THEN purge_inactive_from(S2, i + 1, ub)
             ELSE IF ub = "abort" THEN Abort(S2)
             ELSE purge_inactive_from(S2, 1, ub)
purge_inactive_clients(S, ub) == purge_inactive_from(S, 1, ub)

(* clear_clients: the same loop, erasing every record it visits *)
RECURSIVE clear_clients_from(_, _, _)
clear_clients_from(S, i, ub) ==
    IF i > Len(S.cl) THEN S
    ELSE LET S2 == [S EXCEPT !.cl = RemoveAt(@, i)]
         IN  IF i <= Len(S2.cl) THEN clear_clients_from(S2, i + 1, ub)
             ELSE IF ub = "abort" THEN Abort(S2)
             ELSE clear_clients_from(S2, 1, ub)
clear_clients(S, ub) == clear_clients_from(S, 1, ub)

(* --------------------- client and GUI handlers ------------------------ *)
(* nsm::generate_client_id: the ids it may return for this record store *)
generate_client_id(cl) == {id \in IdPool : \A i \in Idx(cl) : cl[i].id # id}

(* a daemon that accepts every version *)
api_is_never_incompatible(major) == FALSE
api_is_incompatible(major) == major > NSM_API_VERSION_MAJOR

osc_announce(S, src, clientname, caps, exe, major, pid, newid) ==
    IF S.path = NoPath
    THEN error_send(S, src, "/nsm/server/announce", "no_session_open")
    ELSE
    LET found == FirstOf({i \in Idx(S.cl) :
                     /\ S.cl[i].exe = exe
                     /\ ~S.cl[i].active
                     /\ S.cl[i].pending = "start"})
        expected_client == found # 0
        c0 == IF expected_client THEN S.cl[found]
              ELSE [Client(NoName, exe, newid) EXCEPT !.exe = exe]
    IN  IF api_is_incompatible(major)
        THEN error_send(S, src, "/nsm/server/announce", "incompatible_api")
        ELSE IF ~expected_client /\ Len(S.cl) >= S.cap
        THEN [S EXCEPT !.ovf = TRUE]
        ELSE
        LET c1 == [c0 EXCEPT !.pid = pid, !.caps = caps,
                             !.addr = lo_address_new_from_url(url_of(src)),
                             !.name = clientname, !.active = TRUE]
            c2 == [c1 EXCEPT !.status = "open"]
            c3 == [c2 EXCEPT !.pending = "open"]
            i == IF expected_client THEN found ELSE Len(S.cl) + 1
            S1 == [S EXCEPT !.cl = IF expected_client THEN [@ EXCEPT ![found] = c3]
                                   ELSE Append(@, c3),
                            !.procs[pid] = IF @ = "free" THEN "other" ELSE @]
            S2 == send(S1, src, "/reply",
                       <<"/nsm/server/announce",
                         IF expected_client THEN "started ourselves"
                         ELSE "registered itself from the outside">>)
            S3 == gui_send(S2, "/nsm/gui/client/new", <<c2.id, c2.name>>)
            S4 == gui_send(S3, "/nsm/gui/client/status", <<c2.id, c2.status>>)
        IN  send(S4, src, "/nsm/client/open",
                 <<get_client_project_path(S.path, c2), S.name, full_client_id(c2)>>)

osc_error(S, src, err_code, message, ub) ==
    LET i == get_client_by_address(S.cl, src, ub) IN
    IF i = -1 THEN Abort(S)
    ELSE IF i = 0 THEN S
    ELSE LET S1 == [S EXCEPT !.cl[i].errcode = err_code, !.cl[i].message = message,
                             !.cl[i].pending = "none", !.cl[i].status = "error"]
         IN  gui_send(S1, "/nsm/gui/client/status", <<S.cl[i].id, "error">>)

osc_reply(S, src, message, ub) ==
    LET i == get_client_by_address(S.cl, src, ub) IN
    IF i = -1 THEN Abort(S)
    ELSE IF i = 0 THEN S
    ELSE LET S1 == [S EXCEPT !.cl[i].errcode = 0, !.cl[i].message = message,
                             !.cl[i].pending = "none", !.cl[i].status = "ready"]
         IN  gui_send(S1, "/nsm/gui/client/status", <<S.cl[i].id, "ready">>)

(* broadcast: to_path is the tuple of the segments of the target path *)
RECURSIVE relay_to_clients(_, _, _, _, _)
relay_to_clients(S, i, sender_url, to_path, new_args) ==
    IF i > Len(S.cl) THEN S
    ELSE LET c == S.cl[i]
             S1 == IF c.addr # NoAddr /\ strcompare(sender_url, url_of(c.addr))
                   THEN send(S, c.addr, to_path, new_args) ELSE S
         IN  relay_to_clients(S1, i + 1, sender_url, to_path, new_args)

osc_broadcast(S, src, to_path, new_args) ==
    IF ~strncompare(to_path, <<"nsm">>) THEN S
    ELSE LET sender_url == url_of(src)
             S1 == relay_to_clients(S, 1, sender_url, to_path, new_args)
         IN  IF S1.gui /\ strcompare(url_of(S1.gaddr), sender_url)
             THEN send(S1, S1.gaddr, "/nsm/server/broadcast", <<to_path>> \o new_args)
             ELSE S1

(* add: launch(clientname, NULL) builds the std::string clientid from NULL *)
osc_add(S, src, clientname, newid, ub) ==
    IF S.path = NoPath
    THEN error_send(S, src, "/nsm/server/add", "no_session_open")
    ELSE IF ub = "abort" THEN Abort(S)
    ELSE reply_send(launch(S, clientname, NoName, newid), src, "/nsm/server/add", "Launched")

(* the GUI's client commands look the client up by the sender's address *)
osc_stop(S, src, ub) ==
    LET i == get_client_by_address(S.cl, src, ub) IN
    IF i = -1 THEN Abort(S)
    ELSE IF i = 0 THEN gui_send(S, "/error", <<-10, "No such client.">>)
    ELSE gui_send(command_client_to_stop(S, i), "/reply", <<"Client stopped">>)

osc_remove(S, src, ub) ==
    LET i == get_client_by_address(S.cl, src, ub) IN
    IF i = -1 THEN Abort(S)
    ELSE IF i = 0 THEN gui_send(S, "/error", <<-10, "No such client">>)
    ELSE IF S.cl[i].pid = 0 /\ ~S.cl[i].active
    THEN LET S1 == gui_send(S, "/nsm/gui/client/status", <<S.cl[i].id, "removed">>)
         IN  gui_send([S1 EXCEPT !.cl = RemoveAt(@, i)], "/reply", <<"Client removed">>)
    ELSE S

osc_resume(S, src, newid, ub) ==
    LET i == get_client_by_address(S.cl, src, ub) IN
    IF i = -1 THEN Abort(S)
    ELSE IF i # 0 /\ S.cl[i].pid = 0 /\ ~S.cl[i].active
    THEN launch(S, S.cl[i].exe, S.cl[i].id, newid)
    ELSE S

osc_client_save(S, src, ub) ==
    LET i == get_client_by_address(S.cl, src, ub) IN
    IF i = -1 THEN Abort(S)
    ELSE IF i # 0 /\ S.cl[i].active THEN command_client_to_save(S, i)
    ELSE S

osc_client_show_optional_gui(S, src, ub) ==
    LET i == get_client_by_address(S.cl, src, ub) IN
    IF i = -1 THEN Abort(S)
    ELSE IF i # 0 /\ S.cl[i].active
    THEN send(S, S.cl[i].addr, "/nsm/client/show_optional_gui", << >>)
    ELSE S

osc_client_hide_optional_gui(S, src, ub) ==
    LET i == get_client_by_address(S.cl, src, ub) IN
    IF i = -1 THEN Abort(S)
    ELSE IF i # 0 /\ S.cl[i].active
    THEN send(S, S.cl[i].addr, "/nsm/client/hide_optional_gui", << >>)
    ELSE S

(* announce_gui, for a GUI that announces itself *)
RECURSIVE replay_clients(_, _)
replay_clients(S, i) ==
    IF i > Len(S.cl) THEN S
    ELSE LET c == S.cl[i]
             S1 == send(S, S.gaddr, "/nsm/gui/client/new", <<c.id, c.exe>>)
             S2 == IF c.status # ""
                   THEN send(S1, S.gaddr, "/nsm/gui/client/status", <<c.id, c.status>>)
                   ELSE S1
             S3 == IF c.label # ""
                   THEN send(S2, S.gaddr, "/nsm/gui/client/label", <<c.id, c.label>>)
                   ELSE S2
             S4 == IF c.active
                   THEN send(S3, S.gaddr, "/nsm/gui/client/new", <<c.id, c.name>>)
                   ELSE S3
         IN  replay_clients(S4, i + 1)

announce_gui(S, url) ==
    LET S1 == [S EXCEPT !.gaddr = lo_address_new_from_url(url), !.gui = TRUE]
        S2 == send(S1, S1.gaddr, "/nsm/gui/gui_announce", <<"hi">>)
        S3 == send(S2, S1.gaddr, "/nsm/gui/session/root", <<SessionRoot>>)
    IN  IF S3.name = ""
        THEN send(S3, S1.gaddr, "/nsm/gui/session/name", <<"", "">>)
        ELSE IF S3.path = NoPath                    \* substr throws out_of_range
        THEN Abort(replay_clients(S3, 1))
        ELSE send(replay_clients(S3, 1), S1.gaddr, "/nsm/gui/session/name",
                  <<S3.name, relative_path(S3.path)>>)

osc_gui_announce(S, src) == announce_gui(S, url_of(src))

(* ------------------------- files and locks ---------------------------- *)
(* a test that finds no session.nsm anywhere *)
session_never_exists(S, relativepath) == FALSE
session_already_exists(S, relativepath) == S.files[relativepath] # NoFile
file_exists(S, lockname) ==
    \E l \in S.locks : l.name = lockname.name /\ l.path = lockname.path
delete_lock_file(S, lockname) ==
    [S EXCEPT !.locks = {l \in @ : ~(l.name = lockname.name /\ l.path = lockname.path)}]
write_lock_file(S, lockname, path, url) ==
    [S EXCEPT !.locks =
        {l \in @ : ~(l.name = lockname.name /\ l.path = lockname.path)}
        \cup {[name |-> lockname.name, path |-> lockname.path, url |-> url]}]

(* save_session_file: one line name:exe:id per record; wr says whether the  *)
(* file can be written.  Result: the state and the function's return value  *)
session_lines(cl) == [i \in Idx(cl) |-> Row(cl[i].name, cl[i].exe, cl[i].id)]
save_session_file(S, wr) ==
    IF wr /\ S.path # NoPath
    THEN [S EXCEPT !.files[relative_path(S.path)] = session_lines(S.cl)]
    ELSE S
save_session_file_result(S, wr) == IF wr /\ S.path # NoPath THEN 0 ELSE 1

parse_session_file(S, relativepath) == S.files[relativepath]

(* --------------------- the suspended handlers ------------------------- *)
Frame(h, src, arg) ==
    [h |-> h, pc |-> "", n |-> 0, src |-> src, arg |-> arg, rows |-> << >>]

Push(S, f) ==
    IF Len(S.stk) >= MaxDepth THEN [S EXCEPT !.ovf = TRUE]
    ELSE [S EXCEPT !.stk = Append(@, f)]

Env(ub, wr) == [ub |-> ub, wr |-> wr]

(* ----------------------- the handlers' tails -------------------------- *)
(* an open that keeps the latch when it fails *)
osc_open_end_holding(S, f, err) ==
    IF err = "ok"
    THEN [reply_send_ex(S, f.src, "/nsm/server/open", "Loaded") EXCEPT !.op = "none"]
    ELSE error_send_ex(S, f.src, "/nsm/server/open", err)
osc_open_end(S, f, err) ==
    LET S1 == IF err = "ok"
              THEN reply_send_ex(S, f.src, "/nsm/server/open", "Loaded")
              ELSE error_send_ex(S, f.src, "/nsm/server/open", err)
    IN  [S1 EXCEPT !.op = "none"]

osc_duplicate_end(S, f, err) ==
    IF err = "ok"
    THEN LET S1 == reply_send_ex(S, f.src, "/nsm/server/duplicate", "Loaded")
             S2 == reply_send_ex(S1, f.src, "/nsm/server/duplicate", "Duplicated")
         IN  [S2 EXCEPT !.op = "none"]
    ELSE [error_send_ex(S, f.src, "/nsm/server/duplicate", "no_such_file")
            EXCEPT !.op = "none"]

osc_save_end(S, f) ==
    [reply_send_ex(S, f.src, "/nsm/server/save", "Saved") EXCEPT !.op = "none"]

osc_abort_end(S, f) ==
    [reply_send_ex(S, f.src, "/nsm/server/abort", "Aborted") EXCEPT !.op = "none"]

osc_close_end(S, f) ==
    [reply_send_ex(S, f.src, "/nsm/server/close", "Closed") EXCEPT !.op = "none"]

(* newsrv from "Creating new session" on.  With a GUI attached the relative *)
(* path is cut out of the OSC path, not out of the session path: substr     *)
(* throws when the session root is longer than the OSC path.                *)
osc_newsrv_end(S, f, env) ==
    LET spath == spath_of(f.arg)
        S1 == [S EXCEPT !.path = spath, !.name = filename_base(spath)]
        S2 == write_lock_file(S1, get_lock_file_name(S1.name, S1.path), S1.path, S1.me)
        S3 == reply_send_ex(S2, f.src, "/nsm/server/new", "Created.")
        S4 == gui_send(S3, "/nsm/gui/session/session", <<f.arg, "">>)
        S5 == gui_send(S4, "/nsm/gui/session/name", <<S4.name, "server/new">>)
        S6 == save_session_file(S5, env.wr)
    IN  IF S3.gui /\ env.ub = "abort" THEN Abort(S4)
        ELSE [reply_send_ex(S6, f.src, "/nsm/server/new", "Session created")
                EXCEPT !.op = "none"]

(* ------------------------ load_session_file --------------------------- *)
RECURSIVE tell_all_clients_session_is_loaded(_, _)
tell_all_clients_session_is_loaded(S, i) ==
    IF i > Len(S.cl) THEN S
    ELSE tell_all_clients_session_is_loaded(
            IF S.cl[i].active
            THEN send(S, S.cl[i].addr, "/nsm/client/session_is_loaded", << >>)
            ELSE S, i + 1)

(* after wait_for_replies: session_is_loaded, the lock file, the GUI *)
load_session_file_end(S, f) ==
    LET path == spath_of(f.arg)
        sessionlock == get_lock_file_name(filename_base(path), path)
        S1 == tell_all_clients_session_is_loaded(S, 1)
        S2 == write_lock_file(S1, sessionlock, S1.path, S1.me)
    IN  gui_send(S2, "/nsm/gui/session/name", <<S2.name, relative_path(path)>>)

after_load(S, f, err) ==
    IF f.h = "open" THEN osc_open_end(S, f, err) ELSE osc_duplicate_end(S, f, err)

(* the loop over the manifest rows: switch an idle pre-existing client,    *)
(* or launch                                                                *)
RECURSIVE switch_or_launch(_, _, _)
switch_or_launch(S, rows, k) ==
    IF k > Len(rows) \/ S.ovf THEN S
    ELSE LET nc == rows[k]
             byboth == get_client_by_name_and_id(S.cl, nc.name, nc.id)
             i == IF byboth # 0 THEN byboth ELSE client_by_name(nc.name, S.cl)
             S1 == IF i # 0 /\ S.cl[i].pre_existing /\ ~reply_pending(S.cl[i])
                   THEN command_client_to_switch(S, i, nc.id)
                   ELSE launch(S, nc.exe, nc.id, nc.id)
         IN  switch_or_launch(S1, rows, k + 1)

(* from purge_inactive_clients to the start of wait_for_announce *)
load_session_file_switch(S, f, env) ==
    LET S1 == purge_inactive_clients(S, env.ub)
        S2 == [S1 EXCEPT !.cl = [i \in Idx(S1.cl) |-> [S1.cl[i] EXCEPT !.pre_existing = TRUE]]]
        S3 == switch_or_launch(S2, f.rows, 1)
    IN  IF S1.dead THEN S1
        ELSE Push(S3, [f EXCEPT !.pc = "announce", !.n = S.slices.announce - 1])

(* ----------------------------- close_session -------------------------- *)
(* from purge_inactive_clients to the end of close_session *)
close_session_end(S, env) ==
    LET S1 == purge_inactive_clients(S, env.ub)
        S2 == IF S1.dead THEN S1 ELSE clear_clients(S1, env.ub)
        S3 == delete_lock_file(S2, get_lock_file_name(S2.name, S2.path))
        S4 == [S3 EXCEPT !.path = NoPath, !.name = ""]
    IN  IF S2.dead THEN S2
        ELSE gui_send(S4, "/nsm/gui/session/name", <<"", "">>)

(* handle_signal_clean_exit after close_session: the daemon file, exit(0) *)
handle_signal_clean_exit_end(S) == [S EXCEPT !.dfile = FALSE, !.exited = TRUE]

after_close_session(S, f, env) ==
    IF f.h = "new" THEN osc_newsrv_end(S, f, env)
    ELSE IF f.h = "close" THEN osc_close_end(S, f)
    ELSE IF f.h = "abort" THEN osc_abort_end(S, f)
    ELSE handle_signal_clean_exit_end(S)

(* ------------------- wait_for_killed_clients_to_die ------------------- *)
(* a last resort that signals nobody *)
sigkill_nobody(S, i) == S

RECURSIVE sigkill_all(_, _)
sigkill_all(S, i) ==
    IF i > Len(S.cl) THEN S
    ELSE sigkill_all(IF S.cl[i].pid > 0 THEN kill(S, S.cl[i].pid, "SIGKILL") ELSE S, i + 1)

after_wait_for_killed(S, f, env) ==
    IF f.h \in {"open", "duplicate"}
    THEN load_session_file_switch(S, f, env)
    ELSE LET S1 == close_session_end(S, env)
         IN  IF S1.dead THEN S1 ELSE after_close_session(S1, f, env)

wait_for_killed_clients_to_die(S, f, env) ==
    IF ~killed_clients_are_alive(S.cl)
    THEN after_wait_for_killed(S, f, env)
    ELSE Push(S, [f EXCEPT !.pc = "killed", !.n = S.slices.killed - 1])

RECURSIVE command_all_to_quit(_, _)
command_all_to_quit(S, i) ==
    IF i > Len(S.cl) THEN S ELSE command_all_to_quit(command_client_to_quit(S, i), i + 1)

close_session(S, f, env) ==
    IF S.path = NoPath THEN after_close_session(S, f, env)
    ELSE wait_for_killed_clients_to_die(command_all_to_quit(S, 1), f, env)

(* the quit loop of load_session_file; need counts the rows per name *)
RECURSIVE quit_unneeded(_, _, _, _)
quit_unneeded(S, i, keys, need) ==
    IF i > Len(S.cl) THEN S
    ELSE LET c == S.cl[i]
             switchable == is_capable_of(c, "switch")
             found == c.name \in keys
         IN  IF ~switchable \/ ~found
             THEN quit_unneeded(command_client_to_quit(S, i), i + 1, keys, need)
             ELSE quit_unneeded(
                    IF need[c.name] <= 0 THEN command_client_to_quit(S, i) ELSE S,
                    i + 1, keys, [need EXCEPT ![c.name] = @ - 1])

load_session_file(S, f, env) ==
    LET path == spath_of(f.arg)
        relativepath == relative_path(path)
    IN
    IF ~session_already_exists(S, relativepath) THEN after_load(S, f, "no_such_file")
    ELSE
    LET S1 == IF S.path # NoPath /\ S.name # ""
              THEN delete_lock_file(S, get_lock_file_name(S.name, S.path)) ELSE S
        S2 == [S1 EXCEPT !.name = filename_base(path)]
        sessionlock == get_lock_file_name(S2.name, path)
        newclients == parse_session_file(S2, relativepath)
    IN
    IF file_exists(S2, sessionlock) THEN after_load(S2, f, "session_locked")
    ELSE IF Len(newclients) = 0 THEN after_load(S2, f, "create_failed")
    ELSE
    LET S3 == [S2 EXCEPT !.path = path]
        keys == {newclients[k].name : k \in 1..Len(newclients)}
        need == [nm \in keys |-> Cardinality({k \in 1..Len(newclients) : newclients[k].name = nm})]
        S4 == quit_unneeded(S3, 1, keys, need)
    IN  wait_for_killed_clients_to_die(S4, [f EXCEPT !.rows = newclients], env)

(* ------------------- command_all_clients_to_save ---------------------- *)
(* what each handler does when command_all_clients_to_save has returned *)
after_save(S, f, env) ==
    IF f.h = "save" THEN osc_save_end(S, f)
    ELSE IF f.h = "open"
    THEN IF clients_have_errors(S.cl)
         THEN [error_send_ex(S, f.src, "/nsm/server/open", "general")
                 EXCEPT !.op = "none"]
         ELSE load_session_file(S, f, env)
    ELSE IF f.h = "duplicate"
    THEN IF clients_have_errors(S.cl)
         THEN [error_send_ex(S, f.src, "/nsm/server/duplicate", "general")
                 EXCEPT !.op = "none"]
         ELSE LET S1 == IF S.path # NoPath
                        THEN [S EXCEPT !.files[f.arg] = S.files[relative_path(S.path)]]
                        ELSE S
                  S2 == gui_send(S1, "/nsm/gui/session/session", <<f.arg>>)
              IN  load_session_file(S2, f, env)
    ELSE close_session(S, f, env)           \* new and close

RECURSIVE command_all_to_save(_, _)
command_all_to_save(S, i) ==
    IF i > Len(S.cl) THEN S ELSE command_all_to_save(command_client_to_save(S, i), i + 1)

command_all_clients_to_save(S, f, env) ==
    IF S.path = NoPath THEN after_save(S, f, env)
    ELSE IF save_session_file_result(S, env.wr) = 1 THEN after_save(S, f, env)
    ELSE Push(command_all_to_save(save_session_file(S, env.wr), 1),
              [f EXCEPT !.pc = "save_replies", !.n = S.slices.reply - 1])

(* handle_signal_clean_exit: the handler of SIGHUP, SIGINT, SIGTERM and    *)
(* SIGSEGV, called with 0 by main when the parent pid has changed         *)
handle_signal_clean_exit(S, sig, env) == close_session(S, Frame("exit", NoAddr, sig), env)

(* ---------------------- the session handlers -------------------------- *)
(* a rejection that drops the latch *)
operation_pending_releasing(S, src, path) ==
    [error_send_ex(S, src, path, "operation_pending") EXCEPT !.op = "none"]
operation_pending(S, src, path) == error_send_ex(S, src, path, "operation_pending")

osc_save(S, src, env) ==
    IF S.op # "none" THEN operation_pending(S, src, "/nsm/server/save")
    ELSE IF S.path = NoPath
    THEN [error_send_ex(S, src, "/nsm/server/save", "no_session_open") EXCEPT !.op = "none"]
    ELSE command_all_clients_to_save(S, Frame("save", src, ""), env)

osc_duplicate(S, src, name, env) ==
    IF S.op # "none" THEN operation_pending(S, src, "/nsm/server/duplicate")
    ELSE IF S.path = NoPath
    THEN [error_send_ex(S, src, "/nsm/server/duplicate", "no_session_open")
            EXCEPT !.op = "none"]
    ELSE IF ~path_is_valid(name) \/ session_already_exists(S, name)
    THEN [error_send_ex(S, src, "/nsm/server/duplicate", "create_failed")
            EXCEPT !.op = "none"]
    ELSE command_all_clients_to_save([S EXCEPT !.op = "duplicate"],
                                     Frame("duplicate", src, name), env)

osc_newsrv(S, src, name, env) ==
    IF S.op # "none" THEN operation_pending(S, src, "/nsm/server/new")
    ELSE IF ~path_is_valid(name) \/ session_already_exists(S, name)
    THEN [error_send_ex(S, src, "/nsm/server/new", "create_failed") EXCEPT !.op = "none"]
    ELSE LET S1 == [S EXCEPT !.op = "new_session"]
             f == Frame("new", src, name)
         IN  IF S1.path # NoPath THEN command_all_clients_to_save(S1, f, env)
             ELSE osc_newsrv_end(S1, f, env)

osc_open(S, src, name, env) ==
    IF S.op # "none" THEN operation_pending(S, src, "/nsm/server/open")
    ELSE LET S1 == [S EXCEPT !.op = "open"]
             f == Frame("open", src, name)
         IN  IF S1.path # NoPath THEN command_all_clients_to_save(S1, f, env)
             ELSE load_session_file(S1, f, env)

(* list: fts_read visits the files of a directory before its directories; *)
(* once session.nsm is met in a directory, the directories below it are   *)
(* skipped.  Result: the directories whose session.nsm is visited         *)
RECURSIVE fts_read(_, _, _)
fts_read(S, k, currentsession) ==
    IF k > Len(SessionDirs) THEN << >>
    ELSE LET ent == SessionDirs[k] IN
         IF currentsession # "" /\ ParentDir(ent) = currentsession
         THEN fts_read(S, k + 1, currentsession)
         ELSE IF session_already_exists(S, ent)
         THEN <<ent>> \o fts_read(S, k + 1, ent)
         ELSE fts_read(S, k + 1, "")

(* the text of each reply is cut from the handler's path argument, the    *)
(* OSC path "/nsm/server/list", at the length of the session root plus    *)
(* one: substr throws when the root is longer than that path, else it     *)
(* leaves a tail of the OSC path (for the root "root": "server/list")     *)
ListReplyText == "server/list"

RECURSIVE list_replies(_, _, _, _)
list_replies(S, src, found, k) ==
    IF k > Len(found) THEN S
    ELSE list_replies(send(S, src, "/reply", <<"/nsm/server/list", ListReplyText>>),
                      src, found, k + 1)

osc_list(S, src, ub) ==
    LET found == fts_read(S, 1, "") IN
    IF found # << >> /\ ub = "abort" THEN Abort(S)
    ELSE send(list_replies(S, src, found, 1), src, "/reply", <<"/nsm/server/list", "">>)

osc_abort(S, src, env) ==
    IF S.op # "none" THEN operation_pending(S, src, "/nsm/server/abort")
    ELSE IF S.path = NoPath
    THEN [error_send_ex(S, src, "/nsm/server/abort", "no_session_open") EXCEPT !.op = "none"]
    ELSE close_session([S EXCEPT !.op = "close"], Frame("abort", src, ""), env)

osc_close(S, src, env) ==
    IF S.op # "none" THEN operation_pending(S, src, "/nsm/server/close")
    ELSE IF S.path = NoPath
    THEN [error_send_ex(S, src, "/nsm/server/close", "no_session_open") EXCEPT !.op = "none"]
    ELSE command_all_clients_to_save([S EXCEPT !.op = "close"],
                                     Frame("close", src, ""), env)

(* ------------------ the wait loops' slice boundaries ------------------ *)
(* the innermost suspended handler tests its loop condition               *)
wait_for_replies(S0, f, env) ==
    IF ~replies_still_pending(S0.cl) \/ f.n = 0
    THEN IF f.pc = "save_replies" THEN after_save(S0, f, env)
         ELSE after_load(load_session_file_end(S0, f), f, "ok")
    ELSE Push(S0, [f EXCEPT !.n = @ - 1])

(* a wait for announcements that starts over when its time is up *)
wait_for_announce_again(S0, f, env) ==
    IF Len(S0.cl) = number_of_reponsive_clients(S0.cl)
    THEN Push(S0, [f EXCEPT !.pc = "load_replies", !.n = S0.slices.reply - 1])
    ELSE Push(S0, [f EXCEPT !.n = IF @ = 0 THEN S0.slices.announce - 1 ELSE @ - 1])

wait_for_announce(S0, f, env) ==
    IF Len(S0.cl) = number_of_reponsive_clients(S0.cl) \/ f.n = 0
    THEN Push(S0, [f EXCEPT !.pc = "load_replies", !.n = S0.slices.reply - 1])
    ELSE Push(S0, [f EXCEPT !.n = @ - 1])

wait_for_killed(S0, f, env) ==
    IF f.n = 0 THEN after_wait_for_killed(sigkill_all(S0, 1), f, env)
    ELSE IF ~killed_clients_are_alive(S0.cl) THEN after_wait_for_killed(S0, f, env)
    ELSE Push(S0, [f EXCEPT !.n = @ - 1])

slice_end(S, env) ==
    LET f == S.stk[Len(S.stk)]
        S0 == [S EXCEPT !.stk = SubSeq(@, 1, Len(@) - 1)]
    IN  IF f.pc \in {"save_replies", "load_replies"} THEN wait_for_replies(S0, f, env)
        ELSE IF f.pc = "announce" THEN wait_for_announce(S0, f, env)
        ELSE wait_for_killed(S0, f, env)

(* ============================ jackpatch =============================== *)
(* jackpatch66 (jackpatch66.cpp / jackpatch66.hpp) is a client of the      *)
(* daemon and a process of its own.  Its main loop dispatches the OSC      *)
(* messages /nsm/client/open and /nsm/client/save and then reads the port  *)
(* notifications that the JACK thread has written to the ring buffer.      *)
(* A full port name is a string; a line of a patch file is the tuple of    *)
(* its blank-separated parts.                                              *)

(* the ports the JACK graph can hold, in the order jack_get_ports lists    *)
(* them, which is also their order as strings                              *)
PortNames == <<"a:out", "b:in", "c:out">>
JackPortIsOutput(portname) == portname \in {"a:out", "c:out"}

EEXIST == 17

NoPatchFile == << <<"no file">> >>
(* p1 and p2 have a patch file, p3 has none; the second line of p2 does    *)
(* not parse                                                               *)
InitPatchFiles ==
    [f \in {"p1", "p2", "p3"} |->
        IF f = "p1" THEN << <<"a:out", "|>", "b:in">> >>
        ELSE IF f = "p2" THEN << <<"b:in", "|<", "c:out">>, <<"a:out", "b:in">>,
                                 <<"a:out", "||", "b:in">> >>
        ELSE NoPatchFile]

(* "%[^:]:%[^\n]": the client is what precedes the first colon *)
extract_client_port(fullportname) ==
    IF fullportname = "a:out" THEN [ok |-> TRUE, client |-> "a", port |-> "out"]
    ELSE IF fullportname = "b:in" THEN [ok |-> TRUE, client |-> "b", port |-> "in"]
    ELSE IF fullportname = "c:out" THEN [ok |-> TRUE, client |-> "c", port |-> "out"]
    ELSE [ok |-> FALSE, client |-> "", port |-> ""]

make_client_port_name(cp) ==
    PortNames[CHOOSE k \in 1..Len(PortNames) :
                /\ extract_client_port(PortNames[k]).client = cp.client
                /\ extract_client_port(PortNames[k]).port = cp.port]

(* " %m[^:]:%m[^|] |%1[<>|] %m[^:]:%m[^\n]": five elements or an error *)
nsm_process_patch(patch) ==
    IF /\ Len(patch) = 3
       /\ patch[2] \in {"|<", "|>", "||"}
       /\ extract_client_port(patch[1]).ok
       /\ extract_client_port(patch[3]).ok
    THEN [dir |-> IF patch[2] = "|<" THEN "left"
                  ELSE IF patch[2] = "|>" THEN "right" ELSE "duplex",
          leftc |-> extract_client_port(patch[1]).client,
          leftp |-> extract_client_port(patch[1]).port,
          rightc |-> extract_client_port(patch[3]).client,
          rightp |-> extract_client_port(patch[3]).port]
    ELSE [dir |-> "error", leftc |-> "", leftp |-> "", rightc |-> "", rightp |-> ""]

(* the state of the jackpatch process and of the JACK graph *)
JackpatchState ==
    [ pl |-> g_patch_list, kp |-> g_known_ports, pf |-> g_project_file,
      ring |-> ringbuffer, active |-> jack_active, ports |-> jack_ports,
      conns |-> jack_connections, files |-> patch_files,
      dead |-> jackpatch_aborted, out |-> << >> ]

(* process_patch with the sides of a "|<" line taken as those of "|>" *)
process_patch_left_as_right(S, patch, pr_active) ==
    LET r == nsm_process_patch(patch)
        left == [client |-> r.leftc, port |-> r.leftp]
        right == [client |-> r.rightc, port |-> r.rightp]
        pr(src, dst) == [pr_src |-> src, pr_dst |-> dst, pr_active |-> pr_active]
    IN  IF r.dir \in {"left", "right"}
        THEN [ok |-> TRUE, S |-> [S EXCEPT !.pl = Append(@, pr(left, right))]]
        ELSE IF r.dir = "duplex"
        THEN [ok |-> TRUE,
              S |-> [S EXCEPT !.pl = Append(Append(@, pr(right, left)), pr(left, right))]]
        ELSE [ok |-> FALSE, S |-> S]

(* enqueue copies the record before process_patch sets pr_active, which    *)
(* has no initializer: the copy in the list holds the indeterminate value  *)
(* pr_active of this call                                                  *)
process_patch(S, patch, pr_active) ==
    LET r == nsm_process_patch(patch)
        left == [client |-> r.leftc, port |-> r.leftp]
        right == [client |-> r.rightc, port |-> r.rightp]
        pr(src, dst) == [pr_src |-> src, pr_dst |-> dst, pr_active |-> pr_active]
    IN  IF r.dir = "left"
        THEN [ok |-> TRUE, S |-> [S EXCEPT !.pl = Append(@, pr(right, left))]]
        ELSE IF r.dir = "right"
        THEN [ok |-> TRUE, S |-> [S EXCEPT !.pl = Append(@, pr(left, right))]]
        ELSE IF r.dir = "duplex"
        THEN [ok |-> TRUE,
              S |-> [S EXCEPT !.pl = Append(Append(@, pr(right, left)), pr(left, right))]]
        ELSE [ok |-> FALSE, S |-> S]

(* clear_all_patches, then process_patch line by line; the result is the   *)
(* result of the last line                                                 *)
read_config(S, file, pr_active) ==
    LET RECURSIVE lines_from(_, _, _)
        lines_from(S1, k, result) ==
            IF k > Len(S.files[file]) THEN [ok |-> result, S |-> S1]
            ELSE LET r == process_patch(S1, S.files[file][k], pr_active)
                 IN  lines_from(r.S, k + 1, r.ok)
    IN  IF S.files[file] = NoPatchFile THEN [ok |-> FALSE, S |-> S]
        ELSE lines_from([S EXCEPT !.pl = << >>], 1, TRUE)

find_known_port(S, portname) ==
    IF \E k \in 1..Len(S.kp) : S.kp[k] = portname THEN portname ELSE ""

(* jack_connect: 0, EEXIST when the ports are connected already, or an     *)
(* error when a port is not in the graph or the ports do not fit           *)
jack_connect(S, srcport, dstport) ==
    IF srcport \notin S.ports \/ dstport \notin S.ports THEN -1
    ELSE IF ~JackPortIsOutput(srcport) \/ JackPortIsOutput(dstport) THEN -1
    ELSE IF <<srcport, dstport>> \in S.conns THEN EEXIST
    ELSE 0

connect_path(S, i) ==
    LET pr == S.pl[i]
        srcport == make_client_port_name(pr.pr_src)
        dstport == make_client_port_name(pr.pr_dst)
        rc == jack_connect(S, srcport, dstport)
    IN  IF pr.pr_active THEN S
        ELSE IF find_known_port(S, srcport) = "" \/ find_known_port(S, dstport) = ""
        THEN S
        ELSE [S EXCEPT !.out = Append(@, Msg(NoAddr, "jack_connect", <<srcport, dstport>>)),
                       !.conns = IF rc = 0 THEN @ \cup {<<srcport, dstport>>} ELSE @,
                       !.pl[i].pr_active = (rc = 0 \/ rc = EEXIST)]

(* func is the name of the callback: connect_path (activate_patch) or      *)
(* inactivate_path (inactivate_patch)                                      *)
do_for_matching_patches(S, fullportname, func) ==
    LET cp == extract_client_port(fullportname)
        RECURSIVE patches_from(_, _)
        patches_from(S1, i) ==
            IF i > Len(S1.pl) THEN S1
            ELSE LET pr == S1.pl[i]
                     srcmatch == cp.client = pr.pr_src.client /\ cp.port = pr.pr_src.port
                     dstmatch == cp.client = pr.pr_dst.client /\ cp.port = pr.pr_dst.port
                 IN  patches_from(
                        IF srcmatch \/ dstmatch
                        THEN IF func = "connect_path" THEN connect_path(S1, i)
                             ELSE [S1 EXCEPT !.pl[i].pr_active = FALSE]
                        ELSE S1,
                        i + 1)
    IN  IF cp.ok THEN patches_from(S, 1) ELSE S

(* erase the first record of the port, then inactivate_patch *)
remove_known_port(S, portname) ==
    LET hits == {k \in 1..Len(S.kp) : S.kp[k] = portname}
        S1 == IF hits = {} THEN S
              ELSE [S EXCEPT !.kp = RemoveAt(@, MinOf(hits))]
    IN  do_for_matching_patches(S1, portname, "inactivate_path")

(* enqueue_known_port, then activate_patch *)
handle_new_port(S, portname) ==
    do_for_matching_patches([S EXCEPT !.kp = Append(@, portname)], portname,
                            "connect_path")

register_prexisting_ports(S) ==
    LET RECURSIVE ports_from(_, _)
        ports_from(S1, k) ==
            IF k > Len(PortNames) THEN S1
            ELSE ports_from(IF PortNames[k] \in S1.ports
                            THEN handle_new_port(S1, PortNames[k]) ELSE S1,
                            k + 1)
    IN  ports_from(S, 1)

(* the table written as it was filled *)
sort_table_unsorted(table) == table

(* std::sort of the table: the lines "%s |> %s" are ordered as strings *)
RECURSIVE sort_table(_)
sort_table(table) ==
    LET rank(portname) == CHOOSE k \in 1..Len(PortNames) : PortNames[k] = portname
        before(x, y) == \/ rank(x[1]) < rank(y[1])
                        \/ x[1] = y[1] /\ rank(x[3]) <= rank(y[3])
    IN  IF Len(table) <= 1 THEN table
        ELSE LET rest == sort_table(Tail(table))
                 n == Cardinality({k \in 1..Len(rest) : ~before(Head(table), rest[k])})
             IN  SubSeq(rest, 1, n) \o <<Head(table)>> \o SubSeq(rest, n + 1, Len(rest))

(* kept: the patches with an endpoint that is not in the JACK graph; live: *)
(* jack_port_get_all_connections of every output port; the patch list is   *)
(* cleared and built again with process_patch from both                    *)
snapshot(S, file, pr_active) ==
    LET name(cp) == make_client_port_name(cp)
        missing == SelectSeq(S.pl, LAMBDA pr : \/ name(pr.pr_src) \notin S.ports
                                               \/ name(pr.pr_dst) \notin S.ports)
        kept == [k \in 1..Len(missing) |->
                    <<name(missing[k].pr_src), "|>", name(missing[k].pr_dst)>>]
        pairs == SelectSeq(
                    [k \in 1..(Len(PortNames) * Len(PortNames)) |->
                        <<PortNames[((k - 1) \div Len(PortNames)) + 1],
                          PortNames[((k - 1) % Len(PortNames)) + 1]>>],
                    LAMBDA c : /\ c[1] \in S.ports /\ JackPortIsOutput(c[1])
                               /\ c \in S.conns)
        live == [k \in 1..Len(pairs) |-> <<pairs[k][1], "|>", pairs[k][2]>>]
        RECURSIVE lines_from(_, _, _)
        lines_from(S1, lines, k) ==
            IF k > Len(lines) THEN S1
            ELSE LET r == process_patch(S1, lines[k], pr_active)
                 IN  IF r.ok THEN lines_from(r.S, lines, k + 1) ELSE r.S
        S2 == lines_from(lines_from([S EXCEPT !.pl = << >>], kept, 1), live, 1)
    IN  IF \A p \in S.ports : ~JackPortIsOutput(p) THEN S
        ELSE IF file = "" THEN S2
        ELSE [S2 EXCEPT !.files[file] = sort_table(kept \o live)]

(* g_nsm_lo_address is the daemon that answered the announce *)
jackpatch_osc_save(S, pr_active) ==
    send(snapshot(S, S.pf, pr_active), NoAddr, "/reply", <<"/nsm/client/save", "OK">>)

(* maybe_activate_jack_client sets active *)
jackpatch_osc_open(S, newpath, pr_active) ==
    IF S.files[newpath] # NoPatchFile
    THEN LET r == read_config(S, newpath, pr_active)
         IN  IF r.ok
             THEN send([register_prexisting_ports([r.S EXCEPT !.active = TRUE])
                            EXCEPT !.pf = newpath],
                       NoAddr, "/reply", <<"/nsm/client/open", "OK">>)
             ELSE send(r.S, NoAddr, "/error",
                       <<"/nsm/client/open", "-1", "Could not open file">>)
    ELSE send([S EXCEPT !.active = TRUE, !.pl = << >>, !.pf = newpath],
              NoAddr, "/reply", <<"/nsm/client/open", "OK">>)

(* the callback of the JACK thread writes one record to the ring buffer *)
port_registration_callback(S, jport, reg) ==
    [S EXCEPT !.ring = Append(@, [pnr_registered |-> reg, pnr_port |-> jport])]

(* dequeue_new_port reads pnr_length bytes, which is more than the size of *)
(* the record it has allocated: the outcome ub is undefined                *)
RECURSIVE check_for_new_ports(_, _)
check_for_new_ports(S, ub) ==
    IF S.ring = << >> THEN S
    ELSE IF ub = "abort" THEN [S EXCEPT !.dead = TRUE]
    ELSE LET p == Head(S.ring)
             S1 == [S EXCEPT !.ring = Tail(@)]
         IN  check_for_new_ports(
                IF p.pnr_registered # 0 THEN handle_new_port(S1, p.pnr_port)
                ELSE remove_known_port(S1, p.pnr_port),
                ub)

(* ------------------------------ Init ---------------------------------- *)
Init ==
    /\ s_client_list = [d \in Daemons |-> << >>]
    /\ s_session_path = [d \in Daemons |-> NoPath]
    /\ s_session_name = [d \in Daemons |-> ""]
    /\ s_pending_operation = [d \in Daemons |-> "none"]
    /\ s_gui_is_active = [d \in Daemons |-> FALSE]
    /\ s_gui_address = [d \in Daemons |-> NoAddr]
    /\ stack = [d \in Daemons |-> << >>]
    /\ aborted = [d \in Daemons |-> FALSE]
    /\ procs = [d \in Daemons |-> [p \in Pids |-> "free"]]
    /\ locks = {}
    /\ files = InitFiles
    /\ out = << >>
    /\ last = [d |-> "d1", ev |-> "init", src |-> NoAddr, arg |-> ""]
    /\ quitting = [d \in Daemons |-> {}]
    /\ s_daemon_file = [d \in Daemons |-> TRUE]
    /\ exited = [d \in Daemons |-> FALSE]
    /\ g_patch_list = << >>
    /\ g_known_ports = << >>
    /\ g_project_file = ""
    /\ ringbuffer = << >>
    /\ jack_active = FALSE
    /\ jack_ports = {}
    /\ jack_connections = {}
    /\ patch_files = InitPatchFiles
    /\ jackpatch_aborted = FALSE

(* one dispatched message, signal or slice boundary of daemon d: S2 is the *)
(* state the handler leaves; out and last observe the handlers in I.watch, *)
(* and where deaths are observed quitting keeps the pids of the processes  *)
(* that command_client_to_quit has signalled and that have not ended yet   *)
CommitArg(d, I, S2, ev, src, arg) ==
    /\ ~S2.ovf
    /\ ~exited[d]
    /\ UNCHANGED jackpatch_vars
    /\ s_daemon_file' = [s_daemon_file EXCEPT ![d] = S2.dfile]
    /\ exited' = [exited EXCEPT ![d] = S2.exited]
    /\ s_client_list' = [s_client_list EXCEPT ![d] = S2.cl]
    /\ s_session_path' = [s_session_path EXCEPT ![d] = S2.path]
    /\ s_session_name' = [s_session_name EXCEPT ![d] = S2.name]
    /\ s_pending_operation' = [s_pending_operation EXCEPT ![d] = S2.op]
    /\ s_gui_is_active' = [s_gui_is_active EXCEPT ![d] = S2.gui]
    /\ s_gui_address' = [s_gui_address EXCEPT ![d] = S2.gaddr]
    /\ stack' = [stack EXCEPT ![d] = S2.stk]
    /\ aborted' = [aborted EXCEPT ![d] = S2.dead]
    /\ procs' = [procs EXCEPT ![d] = S2.procs]
    /\ locks' = S2.locks
    /\ files' = S2.files
    /\ out' = IF ev \in I.watch THEN S2.out ELSE << >>
    /\ last' = IF ev \in I.watch THEN [d |-> d, ev |-> ev, src |-> src, arg |-> arg]
               ELSE [d |-> d, ev |-> "other", src |-> NoAddr, arg |-> ""]
    /\ quitting' = [quitting EXCEPT ![d] =
                        IF "death" \in I.watch
                        THEN {p \in Pids : /\ S2.procs[p] # "free"
                                           /\ \/ p \in @
                                              \/ \E i \in Idx(S2.cl) :
                                                    /\ S2.cl[i].pid = p
                                                    /\ S2.cl[i].pending = "quit"}
                        ELSE {}]

Commit(d, I, S2, ev, src) == CommitArg(d, I, S2, ev, src, "")

St(d, I) == [State(d) EXCEPT !.cap = I.cap, !.slices = I.slices]

NewIds(d, I) == generate_client_id(s_client_list[d]) \cap I.ids

(* ----------------------------- actions -------------------------------- *)
(* I gives the inputs the environment draws from                            *)
(* a process announces itself with its own pid and from its own address:   *)
(* the only records that may already hold them are launched ones that wait *)
(* for this executable                                                     *)
Announce(d, I) ==
    /\ ~aborted[d]
    /\ \E src \in I.clients, prog \in I.progs, caps \in I.caps, major \in I.majors,
          pid \in I.pids, newid \in NewIds(d, I) :
            /\ \A i \in Idx(s_client_list[d]) :
                  LET c == s_client_list[d][i] IN
                  (c.pid = pid \/ (c.pid > 0 /\ c.addr = src))
                      => (c.exe = prog.exe /\ ~c.active /\ c.pending = "start")
            /\ CommitArg(d, I,
                         osc_announce(St(d, I), src, prog.name, caps, prog.exe, major,
                                      pid, newid),
                         "announce", src,
                         [name |-> prog.name, exe |-> prog.exe, major |-> major])

Reply(d, I) ==
    /\ ~aborted[d]
    /\ \E src \in I.senders, ub \in I.ubs :
            Commit(d, I, osc_reply(St(d, I), src, "done", ub), "reply", src)

Error(d, I) ==
    /\ ~aborted[d]
    /\ \E src \in I.senders, ub \in I.ubs :
            Commit(d, I, osc_error(St(d, I), src, -1, "failed", ub), "error", src)

Broadcast(d, I) ==
    /\ ~aborted[d]
    /\ \E src \in I.senders, to_path \in BroadcastPaths :
            CommitArg(d, I, osc_broadcast(St(d, I), src, to_path, << >>),
                      "broadcast", src, to_path)

Stop(d, I) ==
    /\ ~aborted[d]
    /\ \E src \in I.senders, ub \in I.ubs :
            Commit(d, I, osc_stop(St(d, I), src, ub), "stop", src)

Resume(d, I) ==
    /\ ~aborted[d]
    /\ \E src \in I.senders, newid \in NewIds(d, I), ub \in I.ubs :
            Commit(d, I, osc_resume(St(d, I), src, newid, ub), "resume", src)

(* /nsm/gui/client/stop, remove and resume as the GUI sends them: from its *)
(* own address, with the id of a client as argument                        *)
GuiStop(d, I) ==
    /\ ~aborted[d]
    /\ \E src \in I.guis, client_id \in I.ids, ub \in I.ubs :
            CommitArg(d, I, osc_stop(St(d, I), src, ub), "gui_stop", src, client_id)

GuiRemove(d, I) ==
    /\ ~aborted[d]
    /\ \E src \in I.guis, client_id \in I.ids, ub \in I.ubs :
            CommitArg(d, I, osc_remove(St(d, I), src, ub), "gui_remove", src, client_id)

GuiResume(d, I) ==
    /\ ~aborted[d]
    /\ \E src \in I.guis, client_id \in I.ids, newid \in NewIds(d, I), ub \in I.ubs :
            CommitArg(d, I, osc_resume(St(d, I), src, newid, ub), "gui_resume", src,
                      client_id)

GuiAnnounce(d, I) ==
    /\ ~aborted[d]
    /\ \E src \in I.guis :
            Commit(d, I, osc_gui_announce(St(d, I), src), "gui_announce", src)

(* a process of the machine ends; a failed exec only for a launched child *)
Death(d, I) ==
    /\ ~aborted[d]
    /\ \E pid \in Pids, kind \in I.deaths, ub \in I.ubs :
            /\ procs[d][pid] # "free"
            /\ kind = "exit255" => procs[d][pid] = "child"
            /\ CommitArg(d, I, process_death(St(d, I), pid, kind, ub), "death", NoAddr,
                         [pid |-> pid, kind |-> kind])

Save(d, I) ==
    /\ ~aborted[d]
    /\ \E src \in I.ctl, env \in I.envs :
            CommitArg(d, I, osc_save(St(d, I), src, env), "save", src, [wr |-> env.wr])

Open(d, I) ==
    /\ ~aborted[d]
    /\ \E src \in I.ctl, name \in I.sessions, env \in I.envs :
            CommitArg(d, I, osc_open(St(d, I), src, name, env), "open", src, name)

New(d, I) ==
    /\ ~aborted[d]
    /\ \E src \in I.ctl, name \in I.newsessions, env \in I.envs :
            CommitArg(d, I, osc_newsrv(St(d, I), src, name, env), "new", src, name)

Duplicate(d, I) ==
    /\ ~aborted[d]
    /\ \E src \in I.ctl, name \in I.newsessions, env \in I.envs :
            CommitArg(d, I, osc_duplicate(St(d, I), src, name, env), "duplicate", src,
                      name)

Close(d, I) ==
    /\ ~aborted[d]
    /\ \E src \in I.ctl, env \in I.envs :
            Commit(d, I, osc_close(St(d, I), src, env), "close", src)

AbortSession(d, I) ==
    /\ ~aborted[d]
    /\ \E src \in I.ctl, env \in I.envs :
            Commit(d, I, osc_abort(St(d, I), src, env), "abort", src)

List(d, I) ==
    /\ ~aborted[d]
    /\ \E src \in I.ctl, ub \in I.ubs :
            Commit(d, I, osc_list(St(d, I), src, ub), "list", src)

(* a trapped signal, or main's loop finds another parent pid between two   *)
(* waits ("None", the signal number 0)                                     *)
Signals == {"None", "SIGHUP", "SIGINT", "SIGSEGV", "SIGTERM"}
Signal(d, I) ==
    /\ ~aborted[d]
    /\ \E sig \in Signals, env \in I.envs :
            /\ sig = "None" => stack[d] = << >>
            /\ CommitArg(d, I, handle_signal_clean_exit(St(d, I), sig, env),
                         "signal", NoAddr, sig)

(* a slice of the wait loop at the top of the stack ends; the step is      *)
(* marked "early" when it is not the last slice of the loop                *)
SliceEnd(d, I) ==
    /\ ~aborted[d]
    /\ stack[d] # << >>
    /\ \E env \in I.envs :
            CommitArg(d, I, slice_end(St(d, I), env), "slice_end", NoAddr,
                      IF stack[d][Len(stack[d])].n > 0 THEN "early" ELSE "")

(* ------------------------ the inputs drawn ----------------------------- *)
(* a program that announces: the name it reports and its executable *)
Prog(name, exe) == [name |-> name, exe |-> exe]
Programs == {Prog(NameX, NameX), Prog(NameY, NameY)}

(* what the environment may send in a specification: the addresses of      *)
(* clients, of senders of /reply and GUI commands, of the controller; the  *)
(* announce fields; the sessions named; the outcomes of undefined          *)
(* behaviour; the cap on the record store; the handlers observed           *)
Inputs ==
    [ clients |-> {[host |-> 1, port |-> 1]}, senders |-> {[host |-> 1, port |-> 1]},
      guis |-> GuiAddrs, progs |-> {Prog(NameY, NameY)}, names |-> {NameY},
      caps |-> {{}},
      majors |-> {NSM_API_VERSION_MAJOR}, pids |-> {1}, ctl |-> Controllers,
      sessions |-> {"s2"}, newsessions |-> {"s3"},
      envs |-> {Env("benign", TRUE)}, ubs |-> {"benign"}, deaths |-> {"other"},
      cap |-> OpsMaxClients, ids |-> {IdB, IdC}, watch |-> {},
      slices |-> [reply |-> MaxReplySlices, announce |-> MaxAnnounceSlices,
                  killed |-> MaxKillSlices] ]

(* ---------------- the session operations of one daemon ----------------- *)
Operations == {"open", "new", "duplicate", "save", "close", "abort"}

Next ==
    LET I == [Inputs EXCEPT !.watch = Operations]
    IN
        \/ Announce("d1", I) \/ Reply("d1", I)
        \/ Save("d1", I) \/ Open("d1", I) \/ New("d1", I)
        \/ Duplicate("d1", I) \/ Close("d1", I)
        \/ AbortSession("d1", I) \/ SliceEnd("d1", I)

Spec == Init /\ [][Next]_vars

(* ------------------- the GUI and the broadcast relay ------------------- *)
SpecGui ==
    Init /\ [][
        LET I == [Inputs EXCEPT !.clients = ClientAddrs, !.senders = Addrs, !.progs = Programs,
                               !.pids = {1, 2}, !.cap = MaxClients, !.ids = IdPool,
                               !.watch = {"broadcast"}]
        IN
            \/ GuiAnnounce("d1", I) \/ Broadcast("d1", I)
            \/ New("d1", I) \/ Announce("d1", I)
    ]_vars

(* ------------------- two daemons, one session root --------------------- *)
SpecLock ==
    Init /\ [][
        LET I == [Inputs EXCEPT !.watch = {"open"}]
        IN
            \E d \in Daemons :
                \/ Open(d, I)
                \/ Close(d, I)
                \/ SliceEnd(d, I)
    ]_vars

(* ---------------- the client records of one daemon -------------------- *)
SpecRecords ==
    Init /\ [][
        LET I == [Inputs EXCEPT !.clients = ClientAddrs, !.senders = ClientAddrs,
                               !.envs = {Env(ub, TRUE) : ub \in UB}, !.ubs = UB,
                               !.deaths = {"exit255", "other"}]
        IN
            \/ Open("d1", I) \/ Close("d1", I)
            \/ SliceEnd("d1", I) \/ Death("d1", I)
            \/ Announce("d1", I) \/ Reply("d1", I)
            \/ Stop("d1", I) \/ Resume("d1", I)
    ]_vars

(* ------------------------- announce handling -------------------------- *)
SpecAnnounce ==
    Init /\ [][
        LET I == [Inputs EXCEPT !.progs = {Prog(NameX, NameY), Prog(NameY, NameY)},
                               !.clients = ClientAddrs, !.pids = {1, 2},
                               !.majors = Majors, !.cap = MaxClients,
                               !.ids = IdPool, !.watch = {"announce"}]
        IN
            \/ Open("d1", I) \/ New("d1", I)
            \/ SliceEnd("d1", I) \/ Announce("d1", I)
    ]_vars

(* ---------------------- /reply and /error handling --------------------- *)
SpecReply ==
    Init /\ [][
        LET I == [Inputs EXCEPT !.clients = ClientAddrs, !.senders = Addrs, !.ubs = UB,
                               !.pids = {1, 2}, !.cap = MaxClients, !.ids = IdPool,
                               !.watch = {"reply", "error"}]
        IN
            \/ Open("d1", I) \/ SliceEnd("d1", I)
            \/ Announce("d1", I) \/ Reply("d1", I)
            \/ Error("d1", I)
    ]_vars

(* --------------------- loads that switch clients ----------------------- *)
SpecSwitch ==
    Init /\ [][
        LET I == [Inputs EXCEPT !.clients = ClientAddrs, !.senders = ClientAddrs,
                               !.progs = Programs, !.caps = {{"switch"}}, !.pids = {1, 2},
                               !.sessions = {"s1", "s2"}, !.cap = MaxClients, !.ids = IdPool]
        IN
            \/ Open("d1", I) \/ SliceEnd("d1", I)
            \/ Announce("d1", I) \/ Reply("d1", I)
    ]_vars

(* ------------------ loads over records of dead clients ----------------- *)
SpecLoad ==
    Init /\ [][
        LET I == [Inputs EXCEPT !.sessions = {"s1", "s2"}, !.cap = MaxClients, !.ids = IdPool,
                               !.watch = {"open", "slice_end"}]
        IN
            \/ Open("d1", I) \/ SliceEnd("d1", I)
            \/ Death("d1", I)
    ]_vars

(* ------------------- the deaths of client processes -------------------- *)
SpecDeath ==
    Init /\ [][
        LET I == [Inputs EXCEPT !.deaths = {"exit255", "other"}, !.watch = {"death"}]
        IN  \/ Open("d1", I) \/ Close("d1", I) \/ SliceEnd("d1", I)
            \/ Death("d1", I) \/ Announce("d1", I) \/ Reply("d1", I)
    ]_vars

(* ------------------ saves of a session with clients ------------------- *)
SpecSave ==
    Init /\ [][
        LET I == [Inputs EXCEPT !.clients = ClientAddrs, !.senders = ClientAddrs,
                                !.progs = Programs, !.pids = {1, 2},
                                !.sessions = {"s1"}, !.cap = MaxClients, !.ids = IdPool,
                                !.envs = {Env("benign", wr) : wr \in BOOLEAN},
                                !.watch = {"save"}]
        IN  \/ Open("d1", I) \/ Announce("d1", I) \/ Reply("d1", I)
            \/ Save("d1", I) \/ SliceEnd("d1", I)
    ]_vars

(* ------------- sessions created, opened, closed and aborted ------------ *)
SpecSessions ==
    Init /\ [][
        LET I == [Inputs EXCEPT !.sessions = {"s2", "s3", "s4"},
                                !.newsessions = {"s2", "s3", ".."},
                                !.watch = {"open", "new", "slice_end"}]
        IN  \/ Open("d1", I) \/ New("d1", I) \/ Close("d1", I)
            \/ Announce("d1", I) \/ SliceEnd("d1", I)
    ]_vars

(* ----------------------- duplicated sessions -------------------------- *)
SpecDuplicate ==
    Init /\ [][
        LET I == [Inputs EXCEPT !.newsessions = {"s3", "s5"},
                                !.watch = {"duplicate", "slice_end"}]
        IN  \/ Open("d1", I) \/ New("d1", I) \/ Duplicate("d1", I)
            \/ Announce("d1", I) \/ GuiAnnounce("d1", I) \/ SliceEnd("d1", I)
    ]_vars

(* ------------------ sessions closed with their clients ----------------- *)
SpecClose ==
    Init /\ [][
        LET I == [Inputs EXCEPT !.clients = ClientAddrs, !.progs = Programs,
                               !.pids = {1, 2}, !.sessions = {"s1"},
                               !.cap = MaxClients, !.ids = IdPool,
                               !.watch = {"close", "abort", "slice_end"}]
        IN
            \/ Open("d1", I) \/ Announce("d1", I)
            \/ Close("d1", I) \/ AbortSession("d1", I) \/ SliceEnd("d1", I)
    ]_vars

(* ------------------------- sessions listed ---------------------------- *)
SpecList ==
    Init /\ [][
        LET I == [Inputs EXCEPT !.ubs = UB, !.watch = {"list"}]
        IN
            \/ Open("d1", I) \/ New("d1", I) \/ Close("d1", I)
            \/ Announce("d1", I) \/ SliceEnd("d1", I) \/ List("d1", I)
    ]_vars

(* ---------------------- the daemon is told to end ---------------------- *)
(* handle_signal_clean_exit is in its close_session *)
Exiting(d) == \E k \in 1..Len(stack[d]) : stack[d][k].h = "exit"

ExitInputs ==
    [Inputs EXCEPT !.envs = {Env(ub, TRUE) : ub \in UB}, !.ubs = UB,
                   !.watch = {"signal"}]

(* a session is opened when none is open, and no session command arrives  *)
(* once the daemon is ending; the time slices of a wait loop always elapse *)
SpecExit ==
    /\ Init
    /\ [][\/ Open("d1", ExitInputs) /\ ~Exiting("d1") /\ s_session_path["d1"] = NoPath
          \/ Announce("d1", ExitInputs) \/ Death("d1", ExitInputs)
          \/ Signal("d1", ExitInputs) \/ SliceEnd("d1", ExitInputs)]_vars
    /\ WF_vars(SliceEnd("d1", ExitInputs))

(* --------------------- jackpatch and the JACK graph -------------------- *)
(* one message dispatched by lo_server_recv_noblock, one run of            *)
(* check_for_new_ports, or one change of the JACK graph; S2 is the state   *)
(* it leaves; out holds the jack_connect calls and the OSC answers         *)
JackpatchCommit(S2, ev, arg) ==
    /\ ~jackpatch_aborted
    /\ Len(S2.kp) <= MaxKnownPorts
    /\ Len(S2.ring) <= MaxNotifications
    /\ g_patch_list' = S2.pl
    /\ g_known_ports' = S2.kp
    /\ g_project_file' = S2.pf
    /\ ringbuffer' = S2.ring
    /\ jack_active' = S2.active
    /\ jack_ports' = S2.ports
    /\ jack_connections' = S2.conns
    /\ patch_files' = S2.files
    /\ jackpatch_aborted' = S2.dead
    /\ out' = S2.out
    /\ last' = [d |-> "jackpatch", ev |-> ev, src |-> NoAddr, arg |-> arg]
    /\ UNCHANGED <<s_client_list, s_session_path, s_session_name, s_pending_operation,
                   s_gui_is_active, s_gui_address, stack, aborted, procs, locks, files,
                   quitting, s_daemon_file, exited>>

(* a port appears in the JACK graph; an activated client is called back *)
PortRegister(ports) ==
    \E k \in 1..Len(PortNames) :
        /\ PortNames[k] \in ports \ jack_ports
        /\ LET S == [JackpatchState EXCEPT !.ports = @ \cup {PortNames[k]}]
           IN  JackpatchCommit(IF jack_active
                               THEN port_registration_callback(S, PortNames[k], 1)
                               ELSE S,
                               "register", PortNames[k])

(* a port leaves the JACK graph, and its connections with it *)
PortUnregister ==
    \E p \in jack_ports :
        LET S == [JackpatchState EXCEPT !.ports = @ \ {p},
                                        !.conns = {c \in @ : c[1] # p /\ c[2] # p}]
        IN  JackpatchCommit(IF jack_active THEN port_registration_callback(S, p, 0)
                            ELSE S,
                            "unregister", p)

(* another JACK client connects two ports *)
JackConnect ==
    \E srcport \in jack_ports, dstport \in jack_ports :
        /\ jack_connect(JackpatchState, srcport, dstport) = 0
        /\ JackpatchCommit([JackpatchState EXCEPT !.conns = @ \cup {<<srcport, dstport>>}],
                           "connect", srcport)

PatchOpen(projects, indeterminate) ==
    \E newpath \in projects, pr_active \in indeterminate :
        JackpatchCommit(jackpatch_osc_open(JackpatchState, newpath, pr_active),
                        "patch_open", newpath)

PatchSave(indeterminate) ==
    \E pr_active \in indeterminate :
        JackpatchCommit(jackpatch_osc_save(JackpatchState, pr_active), "patch_save", "")

CheckForNewPorts(ubs) ==
    /\ ringbuffer # << >>
    /\ \E ub \in ubs :
        JackpatchCommit(check_for_new_ports(JackpatchState, ub), "check_for_new_ports", "")

(* patch files opened while ports come and go; the value of an             *)
(* uninitialized pr_active and the outcome of the read past the record are *)
(* open                                                                    *)
SpecPatch ==
    Init /\ [][\/ PortRegister({"a:out", "b:in"}) \/ PortUnregister
               \/ PatchOpen({"p1", "p2", "p3"}, BOOLEAN)
               \/ CheckForNewPorts(UB)]_vars

(* snapshots of a graph that other clients connect *)
SpecSnapshot ==
    Init /\ [][\/ PortRegister({"a:out", "b:in"}) \/ PortUnregister
               \/ JackConnect \/ PatchOpen({"p2"}, BOOLEAN)
               \/ PatchSave(BOOLEAN) \/ CheckForNewPorts(UB)]_vars

(* ------------- operations that end on each of their paths ------------- *)
SpecLatch ==
    Init /\ [][
        LET I == [Inputs EXCEPT !.sessions = {"s2", "s3"}, !.newsessions = {"s3", ".."},
                               !.watch = Operations \cup {"slice_end"}]
        IN  \/ Announce("d1", I) \/ Error("d1", I)
            \/ Save("d1", I) \/ Open("d1", I) \/ New("d1", I)
            \/ Duplicate("d1", I) \/ Close("d1", I)
            \/ AbortSession("d1", I) \/ SliceEnd("d1", I)
    ]_vars

(* ------------- loads over clients with and without :switch: ----------- *)
SpecFanOut ==
    Init /\ [][
        LET I == [Inputs EXCEPT !.clients = ClientAddrs, !.senders = ClientAddrs,
                               !.progs = Programs, !.caps = {{}, {"switch"}},
                               !.pids = {1, 2}, !.sessions = {"s1", "s2"},
                               !.cap = MaxClients, !.ids = IdPool,
                               !.watch = {"open", "slice_end"}]
        IN  \/ Open("d1", I) \/ SliceEnd("d1", I)
            \/ Announce("d1", I) \/ Reply("d1", I)
    ]_vars

(* ------------- the grace given to clients told to quit ---------------- *)
SpecGrace ==
    Init /\ [][
        LET I == [Inputs EXCEPT !.watch = {"open", "close", "slice_end", "death"}]
        IN  \/ Open("d1", I) \/ Close("d1", I) \/ SliceEnd("d1", I)
            \/ Death("d1", I) \/ Announce("d1", I) \/ Reply("d1", I)
    ]_vars

(* --------------- operations over clients that keep silent ------------- *)
(* each wait loop has one slice more than its bound; launched programs     *)
(* announce or fail to start, and after that no client replies or ends     *)
WaitInputs ==
    [Inputs EXCEPT !.slices = [reply |-> MaxReplySlices + 1,
                               announce |-> MaxAnnounceSlices + 1,
                               killed |-> MaxKillSlices + 1],
                   !.envs = {Env(ub, TRUE) : ub \in UB}, !.ubs = UB,
                   !.deaths = {"exit255"},
                   !.watch = {"open", "slice_end"}]

SpecWait ==
    Init /\ [][\/ Open("d1", WaitInputs) \/ New("d1", WaitInputs)
               \/ Duplicate("d1", WaitInputs) \/ Save("d1", WaitInputs)
               \/ Close("d1", WaitInputs) \/ AbortSession("d1", WaitInputs)
               \/ Announce("d1", WaitInputs) \/ Death("d1", WaitInputs)
               \/ SliceEnd("d1", WaitInputs)]_vars

(* ----------------- clients stopped, removed and resumed --------------- *)
SpecControl ==
    Init /\ [][
        LET I == [Inputs EXCEPT !.ids = {IdA, IdB},
                               !.watch = {"gui_stop", "gui_remove", "gui_resume"}]
        IN  \/ Open("d1", I) \/ SliceEnd("d1", I) \/ Announce("d1", I)
            \/ Death("d1", I) \/ GuiAnnounce("d1", I)
            \/ GuiStop("d1", I) \/ GuiRemove("d1", I) \/ GuiResume("d1", I)
    ]_vars

(* ============================ the claims ============================== *)
InProgress(d) == {k \in 1..Len(stack[d]) : stack[d][k].h \in Operations}

(* C1: at most one of open, new, duplicate, save, close, abort is in       *)
(* progress in a daemon at any time, the time it spends in a wait loop     *)
(* included.                                                               *)
C1_OneOperationAtATime ==
    \A d \in Daemons : Cardinality(InProgress(d)) <= 1

OscPath(ev) == IF ev = "open" THEN "/nsm/server/open"
               ELSE IF ev = "new" THEN "/nsm/server/new"
               ELSE IF ev = "duplicate" THEN "/nsm/server/duplicate"
               ELSE IF ev = "save" THEN "/nsm/server/save"
               ELSE IF ev = "close" THEN "/nsm/server/close"
               ELSE "/nsm/server/abort"

OperationPendingError(src, ev) ==
    <<Msg(src, "/error", <<OscPath(ev), "operation_pending">>)>>

(* C2: while the latch is not none, an incoming open, new, duplicate,      *)
(* save, close or abort is answered with /error operation_pending to its   *)
(* sender and changes neither the latch, nor the session path and name,    *)
(* nor any client record.                                                  *)
C2_RejectedWhilePending ==
    [][\A d \in Daemons :
        (s_pending_operation[d] # "none" /\ last'.d = d /\ last'.ev \in Operations)
        => /\ out' = OperationPendingError(last'.src, last'.ev)
           /\ s_pending_operation'[d] = s_pending_operation[d]
           /\ s_session_path'[d] = s_session_path[d]
           /\ s_session_name'[d] = s_session_name[d]
           /\ s_client_list'[d] = s_client_list[d]
           /\ stack'[d] = stack[d]]_vars

(* a request was rejected while an operation was suspended in a wait loop *)
C2_Witness ==
    /\ last.ev \in Operations
    /\ s_pending_operation[last.d] # "none"
    /\ stack[last.d] # << >>
    /\ out = OperationPendingError(last.src, last.ev)

(* C3: a broadcast whose target path begins with "/nsm/" sends nothing,   *)
(* neither to a client nor to the GUI.                                     *)
C3_NsmTargetNotRelayed ==
    (last.ev = "broadcast" /\ strncompare(last.arg, <<"nsm">>)) => out = << >>

(* C4: the lock file excludes a second daemon: under every interleaving   *)
(* of two daemons opening the same session, the session is never the      *)
(* current session of both.                                                *)
C4_LockExclusion ==
    \A s \in SessionNames :
        ~(s_session_path["d1"] = spath_of(s) /\ s_session_path["d2"] = spath_of(s))

Records(d) == {s_client_list[d][i] : i \in Idx(s_client_list[d])}

Stopped(c) == c.pid = 0 /\ ~c.active
Launched(c) == c.pid > 0 /\ ~c.active /\ c.pending = "start"
Announced(c) == c.pid > 0 /\ c.active

(* C5 as stated: between handler executions every client record is exactly *)
(* one of: pid == 0 and not active; pid > 0, not active and pending start; *)
(* pid > 0 and active.  (The three exclude one another.)                   *)
C5_ThreeRecordStates ==
    \A d \in Daemons : \A c \in Records(d) :
        Stopped(c) \/ Launched(c) \/ Announced(c)

Running(c) == c.pid > 0 /\ ~c.active

(* C5 amended: between handler executions every client record is exactly   *)
(* one of: pid == 0 and not active; pid > 0 and not active; pid > 0 and     *)
(* active.  A running record that is not active has pending start once      *)
(* launched, but quit or kill once told to quit or stop, and none once a    *)
(* /reply or /error is matched to it.                                       *)
C5_RecordStates ==
    \A d \in Daemons : \A c \in Records(d) :
        Stopped(c) \/ Running(c) \/ Announced(c)

(* a launched client that never announced has been told to stop: it runs,  *)
(* is not active, and its pending command is kill                           *)
C5_Witness ==
    \E c \in Records("d1") : Running(c) /\ c.pending = "kill"

(* C6: every client id is "n" and four uppercase letters, and no two       *)
(* records of a store share an id, at any time.                            *)
C6_UniqueIds ==
    \A d \in Daemons :
        /\ \A c \in Records(d) : is_a_client_id(c.id)
        /\ \A i, j \in Idx(s_client_list[d]) :
              s_client_list[d][i].id = s_client_list[d][j].id => i = j

ClientPaths ==
    {"/nsm/client/save", "/nsm/client/open", "/nsm/client/session_is_loaded",
     "/nsm/client/show_optional_gui", "/nsm/client/hide_optional_gui"}

ActiveAt(cl, addr) == \E i \in Idx(cl) : cl[i].active /\ cl[i].addr = addr

(* C7: a /nsm/client/save, open, session_is_loaded, show_optional_gui or   *)
(* hide_optional_gui message goes only to a record that is active when it  *)
(* is sent: its address is that of a record active before the step or      *)
(* after it.                                                               *)
C7_OnlyToActiveClients ==
    [][\A k \in 1..Len(out') :
          out'[k].path \in ClientPaths =>
              \/ ActiveAt(s_client_list[last'.d], out'[k].to)
              \/ ActiveAt(s_client_list'[last'.d], out'[k].to)]_vars

Expected(cl, exe) ==
    FirstOf({i \in Idx(cl) : cl[i].exe = exe /\ ~cl[i].active /\ cl[i].pending = "start"})

(* C8: an announce with major <= the daemon's, received while a session is *)
(* open, makes exactly one record active for the announcer: the first      *)
(* launched record with the same executable, not active and pending start, *)
(* otherwise a record appended to the store; every other record is left    *)
(* alone.  The announcer is sent /reply for /nsm/server/announce and then   *)
(* /nsm/client/open with <session>/<name>.<id>, the session name and        *)
(* <name>.<id>; the record is left with pending open and status open.       *)
C8_AnnounceAccepted ==
    [][\A d \in Daemons :
        (/\ last'.d = d /\ last'.ev = "announce"
         /\ last'.arg.major <= NSM_API_VERSION_MAJOR
         /\ s_session_path[d] # NoPath)
        => LET pre == s_client_list[d]
               post == s_client_list'[d]
               found == Expected(pre, last'.arg.exe)
               k == IF found # 0 THEN found ELSE Len(pre) + 1
               nm == last'.arg.name
           IN  /\ Len(post) = (IF found # 0 THEN Len(pre) ELSE Len(pre) + 1)
               /\ \A i \in Idx(pre) \ {k} : post[i] = pre[i]
               /\ post[k].active /\ post[k].addr = last'.src
               /\ post[k].name = nm /\ post[k].exe = last'.arg.exe
               /\ found # 0 => post[k].id = pre[k].id
               /\ post[k].pending = "open" /\ post[k].status = "open"
               /\ Len(out') = 2
               /\ out'[1].to = last'.src /\ out'[1].path = "/reply"
               /\ out'[1].args[1] = "/nsm/server/announce"
               /\ out'[2] = Msg(last'.src, "/nsm/client/open",
                                << <<s_session_path[d], nm, post[k].id>>,
                                   s_session_name[d], <<nm, post[k].id>> >>)]_vars

(* a launched client announced under a name other than its executable's   *)
(* and was taken into its launched record                                  *)
C8_Witness ==
    /\ last.ev = "announce"
    /\ last.arg.name # last.arg.exe
    /\ Len(out) = 2 /\ out[1].args[2] = "started ourselves"
    /\ \E c \in Records(last.d) :
          c.active /\ c.name = last.arg.name /\ c.exe = last.arg.exe /\ c.pending = "open"

IncompatibleApiError(src) ==
    <<Msg(src, "/error", <<"/nsm/server/announce", "incompatible_api">>)>>

Unchanged(d) ==
    /\ s_client_list'[d] = s_client_list[d]
    /\ s_session_path'[d] = s_session_path[d]
    /\ s_session_name'[d] = s_session_name[d]
    /\ s_pending_operation'[d] = s_pending_operation[d]
    /\ stack'[d] = stack[d]
    /\ procs'[d] = procs[d]

(* C9 as stated: an announce whose major exceeds the daemon's is answered  *)
(* with /error incompatible_api and changes no state.                      *)
C9_IncompatibleApi ==
    [][\A d \in Daemons :
        (last'.d = d /\ last'.ev = "announce"
         /\ last'.arg.major > NSM_API_VERSION_MAJOR)
        => (out' = IncompatibleApiError(last'.src) /\ Unchanged(d))]_vars

(* C9 amended: an announce whose major exceeds the daemon's, received      *)
(* while a session is open, is answered with /error incompatible_api and   *)
(* changes no state; with no session open it is answered with /error       *)
(* no_session_open and changes no state.                                   *)
C9_IncompatibleApiInSession ==
    [][\A d \in Daemons :
        (last'.d = d /\ last'.ev = "announce"
         /\ last'.arg.major > NSM_API_VERSION_MAJOR)
        => /\ Unchanged(d)
           /\ out' = IF s_session_path[d] # NoPath
                     THEN IncompatibleApiError(last'.src)
                     ELSE <<Msg(last'.src, "/error",
                                <<"/nsm/server/announce", "no_session_open">>)>>]_vars

(* a too-recent client was refused while a launched record waited for it *)
C9_Witness ==
    /\ last.ev = "announce"
    /\ last.arg.major > NSM_API_VERSION_MAJOR
    /\ out = IncompatibleApiError(last.src)
    /\ Expected(s_client_list[last.d], last.arg.exe) # 0

Known(cl, addr) == FirstOf({i \in Idx(cl) : cl[i].addr = addr})

Answered(c, ev) ==
    IF ev = "reply"
    THEN [c EXCEPT !.errcode = 0, !.message = "done", !.pending = "none",
                   !.status = "ready"]
    ELSE [c EXCEPT !.errcode = -1, !.message = "failed", !.pending = "none",
                   !.status = "error"]

(* C10: a /reply from the address of a known client sets its error code to *)
(* ok, clears its pending command and sets its status to ready; an /error   *)
(* records code and message, clears pending and sets status error; either  *)
(* changes no other record, and none when the address is no client's.      *)
C10_ReplyAndError ==
    [][\A d \in Daemons :
        (last'.d = d /\ last'.ev \in {"reply", "error"})
        => LET pre == s_client_list[d]
               post == s_client_list'[d]
               k == Known(pre, last'.src)
           IN  /\ Len(post) = Len(pre)
               /\ \A i \in Idx(pre) :
                     post[i] = IF i = k THEN Answered(pre[i], last'.ev) ELSE pre[i]]_vars


(* the record that held pid p in daemon d before the step, and what the    *)
(* step left of it                                                         *)
Reaped(d) == get_client_by_pid(s_client_list[d], last'.arg.pid)
LeftOf(d, c) == {k \in Idx(s_client_list'[d]) : s_client_list'[d][k].id = c.id}

DeathReaped(d) == last'.d = d /\ last'.ev = "death" /\ Reaped(d) # 0

LaunchFailed(r) ==
    r.launch_error /\ r.label = "Launch error!" /\ r.status = "stopped"

(* C12 as stated: a launched child reaped with exit code 255 gets the      *)
(* launch_error flag, the label "Launch error!" and status stopped; any    *)
(* other reaped death without a pending quit clears the label and sets     *)
(* status stopped.                                                         *)
C12_LaunchError ==
    [][\A d \in Daemons : DeathReaped(d) =>
        LET c == s_client_list[d][Reaped(d)] IN
        IF last'.arg.kind = "exit255"
        THEN \E k \in LeftOf(d, c) : LaunchFailed(s_client_list'[d][k])
        ELSE c.pending # "quit" =>
                \E k \in LeftOf(d, c) :
                    LET r == s_client_list'[d][k] IN
                    r.label = "" /\ r.status = "stopped"]_vars

(* C12 amended: the same, for a child that has no pending quit when it is  *)
(* reaped; with a pending quit the record is not relabelled.               *)
C12_LaunchErrorWithoutQuit ==
    [][\A d \in Daemons : DeathReaped(d) =>
        LET c == s_client_list[d][Reaped(d)] IN
        c.pending # "quit" =>
            \E k \in LeftOf(d, c) :
                LET r == s_client_list'[d][k] IN
                IF last'.arg.kind = "exit255" THEN LaunchFailed(r)
                ELSE r.label = "" /\ r.status = "stopped"]_vars

C12_Witness ==
    /\ last.ev = "death" /\ last.arg.kind = "exit255"
    /\ \E i \in Idx(s_client_list["d1"]) : LaunchFailed(s_client_list["d1"][i])

(* the /nsm/client/save messages of the observed step, and those due to    *)
(* the active records of a store, in the order of the store                *)
ClientSaves == SelectSeq(out', LAMBDA m : m.path = "/nsm/client/save")
SavesDue(cl) ==
    LET a == SelectSeq(cl, LAMBDA c : c.active)
    IN  [k \in 1..Len(a) |-> Msg(a[k].addr, "/nsm/client/save", << >>)]

(* C13: a /nsm/server/save on an open session whose manifest can be        *)
(* written sends /nsm/client/save to every active client, in the order of  *)
(* the store, and sets its pending command and status to save; a running   *)
(* dumb client that is not active gets status noop and no message; no      *)
(* other record changes.  When the manifest cannot be written no client    *)
(* is sent a save and no record changes.                                   *)
C13_SaveFanOut ==
    [][\A d \in Daemons :
        (/\ last'.d = d /\ last'.ev = "save"
         /\ s_pending_operation[d] = "none" /\ s_session_path[d] # NoPath)
        => LET cl == s_client_list[d]
               cl2 == s_client_list'[d]
           IN  /\ \A k \in 1..Len(out') : out'[k].path \in {"/nsm/client/save", "/reply"}
               /\ IF last'.arg.wr
                  THEN /\ ClientSaves = SavesDue(cl)
                       /\ Len(cl2) = Len(cl)
                       /\ \A i \in Idx(cl) :
                            cl2[i] = IF cl[i].active
                                     THEN [cl[i] EXCEPT !.pending = "save", !.status = "save"]
                                     ELSE IF is_dumb_client(cl[i]) /\ cl[i].pid > 0
                                     THEN [cl[i] EXCEPT !.status = "noop"]
                                     ELSE cl[i]
                  ELSE ClientSaves = << >> /\ cl2 = cl]_vars

C13_Witness ==
    /\ last.ev = "save" /\ last.arg.wr
    /\ \E k \in 1..Len(out) : out[k].path = "/nsm/client/save"
    /\ \E i \in Idx(s_client_list["d1"]) : s_client_list["d1"][i].status = "noop"

CreateFailedError(src) ==
    <<Msg(src, "/error", <<"/nsm/server/new", "create_failed">>)>>

(* a /nsm/server/new that arrives while the latch is none and names a      *)
(* path with ".." in it or a session that exists                           *)
NewRefused(d) ==
    /\ last'.d = d /\ last'.ev = "new" /\ s_pending_operation[d] = "none"
    /\ (~path_is_valid(last'.arg) \/ files[last'.arg] # NoFile)

RowsOf(rows) == {rows[i] : i \in 1..Len(rows)}

(* the step in which /nsm/server/open of daemon d answers "Loaded" *)
Loaded(d) ==
    /\ last'.d = d /\ last'.ev \in {"open", "slice_end"}
    /\ \E k \in 1..Len(out') :
            /\ out'[k].path = "/reply"
            /\ out'[k].args = <<"/nsm/server/open", "Loaded">>

(* C15: when a session has been loaded from its manifest, the rows that    *)
(* save_session_file writes for the record store are the rows (name,       *)
(* executable, id) of that manifest, also for clients that never announce  *)
(* and for rows whose name is not the executable's base name.              *)
C15_ManifestRoundTrip ==
    [][\A d \in Daemons : Loaded(d) =>
        RowsOf(session_lines(s_client_list'[d]))
            = RowsOf(files[relative_path(s_session_path'[d])])]_vars

Top(d) == stack[d][Len(stack[d])]

(* the step of daemon d resumes a /nsm/server/duplicate that waits at pc,  *)
(* or it dispatches one that is accepted                                   *)
DuplicateResumes(d, pc) ==
    /\ last'.d = d /\ last'.ev = "slice_end"
    /\ Top(d).h = "duplicate" /\ Top(d).pc = pc
DuplicateAccepted(d) ==
    /\ last'.d = d /\ last'.ev = "duplicate"
    /\ s_pending_operation[d] = "none" /\ s_session_path[d] # NoPath
    /\ path_is_valid(last'.arg) /\ files[last'.arg] = NoFile
DuplicateReturns(d) ==
    /\ DuplicateAccepted(d) \/ (last'.d = d /\ last'.ev = "slice_end" /\ Top(d).h = "duplicate")
    /\ \A k \in 1..Len(stack'[d]) : stack'[d][k].h # "duplicate"
DuplicateName(d) == IF last'.ev = "duplicate" THEN last'.arg ELSE Top(d).arg

Position(msgs, path) == FirstOf({k \in 1..Len(msgs) : msgs[k].path = path})

(* C16: an accepted /nsm/server/duplicate first sends the save commands    *)
(* and waits for the replies; then it copies the session directory, tells  *)
(* an attached GUI /nsm/gui/session/session <name> and loads the copy; the *)
(* last thing it sends is /reply /nsm/server/duplicate "Duplicated" to the *)
(* requester, with the copy as the current session.                        *)
C16_DuplicateOrder ==
    [][\A d \in Daemons :
        /\ DuplicateAccepted(d) =>
                /\ ClientSaves = SavesDue(s_client_list[d])
                /\ DuplicateReturns(d) \/ files'[last'.arg] = NoFile
        /\ DuplicateResumes(d, "save_replies") =>
                \/ Top(d).n > 0 /\ replies_still_pending(s_client_list[d])
                \/ /\ files'[Top(d).arg] # NoFile
                   /\ s_gui_is_active[d] =>
                        /\ out'[1] = Msg(s_gui_address[d], "/nsm/gui/session/session",
                                         <<Top(d).arg>>)
                        /\ Position(out', "/nsm/gui/client/new") # 1
        /\ DuplicateReturns(d) =>
                /\ out' # << >>
                /\ out'[Len(out')].path = "/reply"
                /\ out'[Len(out')].args = <<"/nsm/server/duplicate", "Duplicated">>
                /\ s_session_path'[d] = spath_of(DuplicateName(d))
                /\ s_pending_operation'[d] = "none"]_vars

(* the step in which a /nsm/server/close or /nsm/server/abort that was     *)
(* accepted on an open session returns                                     *)
CloseReturns(d) ==
    /\ last'.d = d
    /\ \/ last'.ev = "slice_end" /\ Top(d).h \in {"close", "abort"}
       \/ /\ last'.ev \in {"close", "abort"}
          /\ s_pending_operation[d] = "none" /\ s_session_path[d] # NoPath
    /\ \A k \in 1..Len(stack'[d]) : stack'[d][k].h \notin {"close", "abort"}

(* C17: when /nsm/server/close or /nsm/server/abort returns on a session   *)
(* that was open, the session path and name are empty and the client       *)
(* record store is empty, whatever records it held.                        *)
C17_ClosedAndDrained ==
    [][\A d \in Daemons : CloseReturns(d) =>
        /\ s_session_path'[d] = NoPath
        /\ s_session_name'[d] = ""
        /\ s_client_list'[d] = << >>]_vars

(* daemon d holds the lock file of session s *)
OwnLock(d, s) == [name |-> s, path |-> spath_of(s), url |-> d] \in locks

(* C18: while no session operation of a daemon is in progress, the daemon  *)
(* holds the lock file of a session exactly if that session is its         *)
(* current session.                                                        *)
C18_LockIffCurrent ==
    \A d \in Daemons :
        (stack[d] = << >> /\ s_pending_operation[d] = "none" /\ ~aborted[d])
        => \A s \in SessionNames : OwnLock(d, s) <=> s_session_path[d] = spath_of(s)

(* the directories that hold a session.nsm and do not lie below another    *)
(* directory that holds one, in the order of SessionDirs                   *)
TopSessions ==
    SelectSeq(SessionDirs,
              LAMBDA s : /\ files[s] # NoFile
                         /\ ~(ParentDir(s) \in SessionNames /\ files[ParentDir(s)] # NoFile))

(* C19: /nsm/server/list answers with one /reply /nsm/server/list          *)
(* <relative path> for each directory that holds a session.nsm and is not  *)
(* below another session directory, and then with /reply /nsm/server/list  *)
(* "" as the terminator.                                                   *)
C19_ListReplies ==
    [][\A d \in Daemons :
        (last'.d = d /\ last'.ev = "list")
        => /\ ~aborted'[d]
           /\ out' = [k \in 1..Len(TopSessions) |->
                        Msg(last'.src, "/reply", <<"/nsm/server/list", TopSessions[k]>>)]
                     \o <<Msg(last'.src, "/reply", <<"/nsm/server/list", "">>)>>]_vars

ExitedCleanly(d) ==
    /\ exited[d] /\ ~s_daemon_file[d]
    /\ s_session_path[d] = NoPath
    /\ \A s \in SessionNames : ~OwnLock(d, s)

BroadcastTargets(d, src) ==
    SelectSeq(s_client_list[d],
              LAMBDA c : c.addr # NoAddr /\ url_of(c.addr) # url_of(src))

(* C21: a /nsm/server/broadcast whose target path does not begin with      *)
(* "/nsm/" sends the target path with its arguments to every client that   *)
(* has an address except the one whose URL is the sender's, and to the GUI *)
(* if and only if a GUI is attached and is not the sender.                 *)
C21_BroadcastRelayed ==
    \A d \in Daemons :
        (last.d = d /\ last.ev = "broadcast" /\ ~strncompare(last.arg, <<"nsm">>))
        => out = [k \in 1..Len(BroadcastTargets(d, last.src)) |->
                    Msg(BroadcastTargets(d, last.src)[k].addr, last.arg, << >>)]
                 \o (IF s_gui_is_active[d]
                        /\ url_of(s_gui_address[d]) # url_of(last.src)
                     THEN <<Msg(s_gui_address[d], "/nsm/server/broadcast",
                                <<last.arg>>)>>
                     ELSE << >>)

(* the patch a line stands for: does the line add a patch from src to dst  *)
LineAdds(line, srcport, dstport) ==
    /\ Len(line) = 3
    /\ \/ line[2] = "|>" /\ line[1] = srcport /\ line[3] = dstport
       \/ line[2] = "|<" /\ line[3] = srcport /\ line[1] = dstport
       \/ line[2] = "||" /\ {line[1], line[3]} = {srcport, dstport}

PatchesFromTo(srcport, dstport) ==
    {k \in 1..Len(g_patch_list) :
        /\ make_client_port_name(g_patch_list[k].pr_src) = srcport
        /\ make_client_port_name(g_patch_list[k].pr_dst) = dstport}

(* C22: when a patch file has been read, the patch list holds, for every   *)
(* line A:p |> B:q one patch from A:p to B:q, for every line A:p |< B:q    *)
(* one patch from B:q to A:p, for every line A:p || B:q both, and nothing  *)
(* for a line that cannot be parsed.                                       *)
C22_PatchParsing ==
    (last.ev = "patch_open" /\ patch_files[last.arg] # NoPatchFile)
    => \A i, j \in 1..Len(PortNames) :
          Cardinality(PatchesFromTo(PortNames[i], PortNames[j]))
          = Cardinality({k \in 1..Len(patch_files[last.arg]) :
                            LineAdds(patch_files[last.arg][k], PortNames[i], PortNames[j])})

(* the file with a "|<" line, a line without a direction and a "||" line   *)
(* has been read: three patches                                            *)
C22_Witness ==
    /\ last.ev = "patch_open" /\ last.arg = "p2"
    /\ Len(g_patch_list) = 3
    /\ PatchesFromTo("c:out", "b:in") # {}
    /\ PatchesFromTo("b:in", "a:out") # {}

KnownPorts(kp) == {kp[k] : k \in 1..Len(kp)}

ConnectCalls(sent, srcport, dstport) ==
    {k \in 1..Len(sent) : sent[k] = Msg(NoAddr, "jack_connect", <<srcport, dstport>>)}

(* C23: a connect call is made only for ports that are both known when it  *)
(* is made (known before or after the step, or registered in it); and      *)
(* when the main loop reads the registration of a port that was not known, *)
(* exactly one connect call is made for every patch that has this port at  *)
(* one end and a known port at the other.                                  *)
C23_ConnectWhenBothKnown ==
    [][/\ \A k \in 1..Len(out') :
            out'[k].path = "jack_connect"
            => {out'[k].args[1], out'[k].args[2]}
               \subseteq KnownPorts(g_known_ports) \cup KnownPorts(g_known_ports')
                         \cup {ringbuffer[n].pnr_port : n \in 1..Len(ringbuffer)}
       /\ (/\ last'.ev = "check_for_new_ports"
           /\ Len(ringbuffer) = 1
           /\ ringbuffer[1].pnr_registered = 1)
          => \A i, j \in 1..Len(PortNames) :
                (/\ PatchesFromTo(PortNames[i], PortNames[j]) # {}
                 /\ ringbuffer[1].pnr_port \in {PortNames[i], PortNames[j]}
                 /\ ringbuffer[1].pnr_port \notin KnownPorts(g_known_ports)
                 /\ {PortNames[i], PortNames[j]} \ {ringbuffer[1].pnr_port}
                        \subseteq KnownPorts(g_known_ports))
                => Cardinality(ConnectCalls(out', PortNames[i], PortNames[j]))
                   = Cardinality(PatchesFromTo(PortNames[i], PortNames[j]))]_vars

(* C24: once a project is open and the main loop has read every pending    *)
(* notification, a port is in the known-port list once if it is live in    *)
(* the JACK graph, and not at all if it is not.                            *)
C24_KnownPortsAreLivePorts ==
    (g_project_file # "" /\ ringbuffer = << >> /\ ~jackpatch_aborted)
    => \A i \in 1..Len(PortNames) :
          Cardinality({k \in 1..Len(g_known_ports) : g_known_ports[k] = PortNames[i]})
          = IF PortNames[i] \in jack_ports THEN 1 ELSE 0

(* C25: a patch record is active only after a connect call for it that     *)
(* returned 0 or EEXIST: a record that is active after a step was active   *)
(* before it (and the step has not built the list anew), or the step made *)
(* a connect call for it and its ports are connected; a record just parsed *)
(* from a file or built again by snapshot is inactive.                     *)
C25_ActiveOnlyAfterConnect ==
    [][\A k \in 1..Len(g_patch_list') :
          g_patch_list'[k].pr_active
          => \/ /\ last'.ev \in {"patch_open", "patch_save"} => g_patch_list' = g_patch_list
                /\ \E j \in 1..Len(g_patch_list) : g_patch_list[j] = g_patch_list'[k]
             \/ /\ ConnectCalls(out', make_client_port_name(g_patch_list'[k].pr_src),
                                 make_client_port_name(g_patch_list'[k].pr_dst)) # {}
                /\ <<make_client_port_name(g_patch_list'[k].pr_src),
                      make_client_port_name(g_patch_list'[k].pr_dst)>>
                        \in jack_connections']_vars

SomeOutputPort == \E p \in jack_ports : JackPortIsOutput(p)

(* what a snapshot of this state is to write: the lines srcport |> dstport *)
(* of the file are as many as the connections and the patches with an      *)
(* endpoint that is not live, and they are in order                        *)
SnapshotWritten(file) ==
    /\ file # NoPatchFile
    /\ \A k \in 1..Len(file) : Len(file[k]) = 3 /\ file[k][2] = "|>"
    /\ \A k \in 1..(Len(file) - 1) :
            \E i, j \in 1..(Len(PortNames) * Len(PortNames)) :
                /\ i <= j
                /\ file[k] = <<PortNames[((i - 1) \div Len(PortNames)) + 1], "|>",
                               PortNames[((i - 1) % Len(PortNames)) + 1]>>
                /\ file[k + 1] = <<PortNames[((j - 1) \div Len(PortNames)) + 1], "|>",
                                   PortNames[((j - 1) % Len(PortNames)) + 1]>>
    /\ \A i, j \in 1..Len(PortNames) :
            Cardinality({k \in 1..Len(file) : file[k] = <<PortNames[i], "|>", PortNames[j]>>})
            = (IF <<PortNames[i], PortNames[j]>> \in jack_connections THEN 1 ELSE 0)
              + (IF PortNames[i] \notin jack_ports \/ PortNames[j] \notin jack_ports
                 THEN Cardinality(PatchesFromTo(PortNames[i], PortNames[j])) ELSE 0)

(* the patches with an endpoint that is not live are in the list as before *)
MissingKept(before, after) ==
    \A i, j \in 1..Len(PortNames) :
        (PortNames[i] \notin jack_ports \/ PortNames[j] \notin jack_ports)
        => Cardinality({k \in 1..Len(after) :
                            /\ make_client_port_name(after[k].pr_src) = PortNames[i]
                            /\ make_client_port_name(after[k].pr_dst) = PortNames[j]})
           = Cardinality({k \in 1..Len(before) :
                            /\ make_client_port_name(before[k].pr_src) = PortNames[i]
                            /\ make_client_port_name(before[k].pr_dst) = PortNames[j]})

(* C26 as stated: a snapshot writes, in sorted order, one line A:p |> B:q  *)
(* for every live connection and one for every saved patch that has an     *)
(* endpoint not live, and no such patch is lost from the patch list.       *)
C26_SnapshotWrites ==
    [][(last'.ev = "patch_save" /\ g_project_file # "")
       => /\ SnapshotWritten(patch_files'[g_project_file])
          /\ MissingKept(g_patch_list, g_patch_list')]_vars

(* C26 amended: while an output port is live, a snapshot writes, in sorted *)
(* order, one line A:p |> B:q for every live connection and one for every  *)
(* saved patch that has an endpoint not live, and no such patch is lost    *)
(* from the patch list; while no output port is live, a snapshot writes    *)
(* nothing and leaves the file and the patch list as they are.             *)
C26_SnapshotWritesWithOutputPorts ==
    [][(last'.ev = "patch_save" /\ g_project_file # "")
       => IF SomeOutputPort
          THEN /\ SnapshotWritten(patch_files'[g_project_file])
               /\ MissingKept(g_patch_list, g_patch_list')
          ELSE patch_files' = patch_files /\ g_patch_list' = g_patch_list]_vars

(* a snapshot has written the kept patch c:out |> b:in after the live      *)
(* connection a:out |> b:in                                                *)
C26_Witness ==
    /\ last.ev = "patch_save"
    /\ patch_files["p2"] = << <<"a:out", "|>", "b:in">>, <<"c:out", "|>", "b:in">> >>
    /\ <<"a:out", "b:in">> \in jack_connections
    /\ PatchesFromTo("c:out", "b:in") # {}

(* the step in which an open, new, duplicate, save, close or abort of      *)
(* daemon d returns: it was dispatched while the latch was none and has    *)
(* left no frame, or it was resumed from its wait loop and its frame is    *)
(* gone                                                                    *)
OperationReturns(d) ==
    /\ last'.d = d /\ ~aborted'[d]
    /\ \/ /\ last'.ev \in Operations /\ s_pending_operation[d] = "none"
          /\ Len(stack'[d]) = Len(stack[d])
       \/ /\ last'.ev = "slice_end" /\ Top(d).h \in Operations
          /\ Len(stack'[d]) < Len(stack[d])

C28_IssuedOnlyWhenNone ==
    [][\A d \in Daemons :
        \A i \in Idx(s_client_list[d]), j \in Idx(s_client_list'[d]) :
            LET before == s_client_list[d][i]
                after == s_client_list'[d][j]
            IN  (/\ before.pid > 0 /\ after.pid = before.pid
                 /\ after.pending # "none" /\ after.pending # before.pending)
                => before.pending \in {"none", "start"}]_vars

(* a step of a load of daemon d: the dispatch of an open or the end of a   *)
(* slice of one of its wait loops                                          *)
LoadStep(d) == last'.d = d /\ last'.ev \in {"open", "slice_end"}

(* the ids of the rows of the manifest of the session being loaded *)
ManifestIds(d) ==
    LET rows == files[relative_path(s_session_path'[d])]
    IN  {rows[k].id : k \in 1..Len(rows)}

(* message m is the switch of a client record that was running, advertised *)
(* :switch: and had no pending command before the step; the record has an  *)
(* id of the manifest, m is built from that id, and the record is left     *)
(* with pending open and status switch                                     *)
SwitchOf(d, m) ==
    \E i \in Idx(s_client_list[d]), j \in Idx(s_client_list'[d]) :
        LET before == s_client_list[d][i]
            after == s_client_list'[d][j]
        IN  /\ before.addr = m.to /\ after.addr = m.to /\ after.pid = before.pid
            /\ is_capable_of(before, "switch")
            /\ before.pending = "none"
            /\ after.id \in ManifestIds(d)
            /\ m.args = <<get_client_project_path(s_session_path'[d], after),
                          s_session_name'[d], full_client_id(after)>>
            /\ after.pending = "open" /\ after.status = "switch"

(* C29: every /nsm/client/open that a load sends goes to a client that was *)
(* there before, advertises :switch: and had no pending command; its path  *)
(* and full id carry the id the record got from the new manifest, and the  *)
(* record is left with pending command open and status switch.             *)
C29_SwitchFanOut ==
    [][\A d \in Daemons : LoadStep(d) =>
        \A k \in 1..Len(out') :
            out'[k].path = "/nsm/client/open" => SwitchOf(d, out'[k])]_vars

(* the step of daemon d in which the quit loop of a load has run and the   *)
(* load starts to wait for the clients it has signalled                    *)
QuitLoopRuns(d) ==
    /\ stack'[d] # << >> /\ stack'[d] # stack[d]
    /\ stack'[d][Len(stack'[d])].h \in {"open", "duplicate"}
    /\ stack'[d][Len(stack'[d])].pc = "killed"
    /\ stack[d] # << >> => Top(d).pc # "killed"

(* record i is not :switch:-capable, or no row of the new manifest has its *)
(* name, or as many capable records of its name come before it as the      *)
(* manifest has rows of that name                                          *)
Unneeded(d, i) ==
    LET cl == s_client_list[d]
        rows == stack'[d][Len(stack'[d])].rows
    IN  \/ ~is_capable_of(cl[i], "switch")
        \/ \A k \in 1..Len(rows) : rows[k].name # cl[i].name
        \/ Cardinality({j \in 1..(i - 1) :
                            cl[j].name = cl[i].name /\ is_capable_of(cl[j], "switch")})
              >= Cardinality({k \in 1..Len(rows) : rows[k].name = cl[i].name})

(* the step in which the wait of a load for its signalled clients ends *)
KillWaitEnds(d) ==
    /\ stack[d] # << >> /\ stack'[d] # stack[d]
    /\ Top(d).h \in {"open", "duplicate"} /\ Top(d).pc = "killed"
    /\ stack'[d] # << >> => stack'[d][Len(stack'[d])].pc # "killed"

(* the step switches a client or launches one *)
SwitchedOrLaunched(d) ==
    \E j \in Idx(s_client_list'[d]) :
        /\ s_client_list'[d][j].status \in {"switch", "launch"}
        /\ \A i \in Idx(s_client_list[d]) : s_client_list[d][i] # s_client_list'[d][j]

(* C30: a load commands every running client to quit that is not           *)
(* :switch:-capable, is not named in the new manifest or is surplus, and   *)
(* when it goes on to switch or launch a client, no process that was       *)
(* commanded to quit is still alive.                                       *)
C30_QuitBeforeSwitch ==
    [][\A d \in Daemons :
        /\ QuitLoopRuns(d) =>
                /\ Len(s_client_list'[d]) = Len(s_client_list[d])
                /\ \A i \in Idx(s_client_list[d]) :
                        (s_client_list[d][i].pid > 0 /\ Unneeded(d, i))
                            => s_client_list'[d][i].pending = "quit"
        /\ (KillWaitEnds(d) /\ SwitchedOrLaunched(d)) => quitting[d] = {}]_vars

(* the step ends a slice of a wait of daemon d for the clients it told to  *)
(* quit                                                                    *)
KillSliceEnds(d) ==
    /\ last'.d = d /\ last'.ev = "slice_end"
    /\ stack[d] # << >> /\ Top(d).pc = "killed"
StillWaitsForKilled(d) ==
    /\ Len(stack'[d]) = Len(stack[d])
    /\ stack'[d][Len(stack'[d])].pc = "killed"
SigkillsIn(msgs) == {msgs[k].pid : k \in {n \in 1..Len(msgs) : msgs[n].path = "SIGKILL"}}

SliceOf(d, pc) ==
    /\ last'.d = d /\ last'.ev = "slice_end" /\ ~aborted'[d]
    /\ stack[d] # << >> /\ Top(d).pc = pc
GoesOn(d) ==
    /\ Len(stack'[d]) = Len(stack[d])
    /\ stack'[d][Len(stack'[d])] = [Top(d) EXCEPT !.n = @ - 1]
(* the wait loops of a handler in the order in which it enters them *)
WaitRank(pc) ==
    IF pc = "save_replies" THEN 1 ELSE IF pc = "killed" THEN 2
    ELSE IF pc = "announce" THEN 3 ELSE 4
(* the handler at the top has returned, or it has entered a later wait *)
MovesOn(d) ==
    \/ Len(stack'[d]) < Len(stack[d])
    \/ /\ Len(stack'[d]) = Len(stack[d])
       /\ stack'[d][Len(stack'[d])].h = Top(d).h
       /\ WaitRank(stack'[d][Len(stack'[d])].pc) > WaitRank(Top(d).pc)

(* C32: every open, new, duplicate, save, close and abort comes to its end *)
(* though no client replies or dies: a wait for announcements goes on to   *)
(* another slice exactly while slices are left and some record is neither  *)
(* active nor failed to launch, a wait for replies exactly while slices    *)
(* are left and an active client has a pending command, a wait for killed  *)
(* clients exactly while rounds are left and a client told to quit has a   *)
(* pid; a wait that does not go on is over, the handler returns or enters  *)
(* a later wait; no wait has more slices than its limit.                   *)
C32_OperationsTerminate ==
    /\ [][\A d \in Daemons :
            /\ (\E pc \in {"save_replies", "killed", "announce", "load_replies"} :
                    SliceOf(d, pc)) => (GoesOn(d) \/ MovesOn(d))
            /\ SliceOf(d, "announce") =>
                    (GoesOn(d) <=>
                        /\ Top(d).n > 0
                        /\ Len(s_client_list[d])
                              # number_of_reponsive_clients(s_client_list[d]))
            /\ (SliceOf(d, "save_replies") \/ SliceOf(d, "load_replies")) =>
                    (GoesOn(d) <=>
                        (Top(d).n > 0 /\ replies_still_pending(s_client_list[d])))
            /\ SliceOf(d, "killed") =>
                    (GoesOn(d) <=>
                        (Top(d).n > 0 /\ killed_clients_are_alive(s_client_list[d])))]_vars
    /\ [](\A d \in Daemons : \A k \in 1..Len(stack[d]) :
            /\ stack[d][k].n >= 0
            /\ stack[d][k].pc = "announce" => stack[d][k].n < MaxAnnounceSlices + 1
            /\ stack[d][k].pc = "killed" => stack[d][k].n < MaxKillSlices + 1
            /\ stack[d][k].pc \in {"save_replies", "load_replies"}
                    => stack[d][k].n < MaxReplySlices + 1)

(* an open has come to its end and has left a launched client that never   *)
(* announced and a client that never replied to its open                   *)
C32_Witness ==
    /\ last.ev = "slice_end" /\ stack[last.d] = << >> /\ ~aborted[last.d]
    /\ out # << >> /\ out[Len(out)].args = <<"/nsm/server/open", "Loaded">>
    /\ \E i \in Idx(s_client_list[last.d]) :
            LET c == s_client_list[last.d][i] IN c.active /\ c.pending = "open"

(* the step in which a wait for replies of daemon d returns before its     *)
(* last slice                                                              *)
RepliesReturnEarly(d) ==
    /\ SliceOf(d, "save_replies") \/ SliceOf(d, "load_replies")
    /\ Top(d).n > 0 /\ ~GoesOn(d)

(* C33 as stated: when wait_for_replies returns before its limit, no       *)
(* record of the store has a pending command.                              *)
C33_NoPendingOnEarlyReturn ==
    [][\A d \in Daemons : RepliesReturnEarly(d) =>
        \A i \in Idx(s_client_list[d]) : s_client_list[d][i].pending = "none"]_vars

(* C33 amended: when wait_for_replies returns before its limit, no active  *)
(* record has a pending command, and it returns before its limit at the    *)
(* first slice that finds none.                                            *)
C33_NoActivePendingOnEarlyReturn ==
    [][\A d \in Daemons :
        /\ RepliesReturnEarly(d) =>
                \A i \in Idx(s_client_list[d]) :
                    s_client_list[d][i].active => s_client_list[d][i].pending = "none"
        /\ ((SliceOf(d, "save_replies") \/ SliceOf(d, "load_replies"))
                /\ \A i \in Idx(s_client_list[d]) :
                        s_client_list[d][i].active
                            => s_client_list[d][i].pending = "none") => ~GoesOn(d)]_vars

(* an open has returned from an early end of its wait for replies while a  *)
(* launched client that has not announced has its command pending          *)
C33_Witness ==
    /\ last.ev = "slice_end" /\ last.arg = "early"
    /\ stack[last.d] = << >> /\ ~aborted[last.d]
    /\ out # << >> /\ out[Len(out)].args = <<"/nsm/server/open", "Loaded">>
    /\ \E i \in Idx(s_client_list[last.d]) :
            LET c == s_client_list[last.d][i] IN ~c.active /\ c.pending # "none"

(* the record that a GUI message of daemon d names by its argument, 0 if   *)
(* none has that id                                                        *)
Named(d) == get_client_by_id(s_client_list[d], last'.arg)
OthersUnchanged(d, i) ==
    /\ Len(s_client_list'[d]) = Len(s_client_list[d])
    /\ \A j \in Idx(s_client_list[d]) : j # i => s_client_list'[d][j] = s_client_list[d][j]

(* C34: /nsm/gui/client/stop, remove and resume act on the record that has *)
(* the client id of their argument: stop signals its process and leaves    *)
(* pending kill and status stopped, remove deletes it and resume launches  *)
(* it again exactly if its pid is 0 and it is not active; an id of no      *)
(* record changes no record.                                               *)
C34_GuiControlById ==
    [][\A d \in Daemons :
        (last'.d = d /\ last'.ev \in {"gui_stop", "gui_remove", "gui_resume"}) =>
            LET i == Named(d)
                cl == s_client_list[d]
                idle == cl[i].pid = 0 /\ ~cl[i].active
            IN  IF i = 0 THEN s_client_list'[d] = cl
                ELSE IF last'.ev = "gui_stop"
                THEN /\ OthersUnchanged(d, i)
                     /\ cl[i].pid > 0 =>
                            /\ s_client_list'[d][i].pending = "kill"
                            /\ s_client_list'[d][i].status = "stopped"
                            /\ \E k \in 1..Len(out') : out'[k] = Sig(cl[i].pid, "SIGTERM")
                ELSE IF last'.ev = "gui_remove"
                THEN s_client_list'[d] = IF idle THEN RemoveAt(cl, i) ELSE cl
                ELSE /\ OthersUnchanged(d, i)
                     /\ s_client_list'[d][i].id = cl[i].id
                     /\ idle <=> (s_client_list'[d][i].pid > 0
                                    /\ s_client_list'[d][i].status = "launch")]_vars

(* C35: a /reply or /error of a client is correlated by the exact source   *)
(* address, host and port: it changes only a record whose announce came    *)
(* from that address, never a record announced from another host with the  *)
(* same port and never a record that has not announced, and the lookup     *)
(* does not end the daemon.                                                *)
C35_ExactSourceAddress ==
    [][\A d \in Daemons :
        (last'.d = d /\ last'.ev \in {"reply", "error"}) =>
            /\ ~aborted'[d]
            /\ Len(s_client_list'[d]) = Len(s_client_list[d])
            /\ \A i \in Idx(s_client_list[d]) :
                  s_client_list'[d][i] # s_client_list[d][i]
                      => s_client_list[d][i].addr = last'.src]_vars

(* the patches of the list pl that have the port at one end *)
PatchesOf(pl, portname) ==
    {k \in 1..Len(pl) : portname \in {make_client_port_name(pl[k].pr_src),
                                      make_client_port_name(pl[k].pr_dst)}}

(* C36: when the main loop consumes the unregistration of a port, the port *)
(* is no longer in the known-port list, every patch that has it as source  *)
(* or destination is inactive, and the step makes no connect call that     *)
(* names the port.                                                         *)
C36_UnregistrationConsumed ==
    [][(/\ last'.ev = "check_for_new_ports"
        /\ ~jackpatch_aborted'
        /\ Len(ringbuffer) = 1
        /\ ringbuffer[1].pnr_registered = 0)
       => LET portname == ringbuffer[1].pnr_port IN
          /\ portname \notin KnownPorts(g_known_ports')
          /\ \A k \in PatchesOf(g_patch_list', portname) : ~g_patch_list'[k].pr_active
          /\ \A k \in 1..Len(out') :
                out'[k].path = "jack_connect" => portname \notin {out'[k].args[1],
                                                                   out'[k].args[2]}]_vars

(* the known-port list after the notifications of ring are taken in order  *)
RECURSIVE KnownAfter(_, _)
KnownAfter(kp, ring) ==
    IF ring = << >> THEN kp
    ELSE LET p == Head(ring)
             hits == {k \in 1..Len(kp) : kp[k] = p.pnr_port}
         IN  KnownAfter(IF p.pnr_registered # 0 THEN Append(kp, p.pnr_port)
                        ELSE IF hits = {} THEN kp
                        ELSE RemoveAt(kp, MinOf(hits)),
                        Tail(ring))

(* C37: the notifications that the callback wrote are consumed by the main *)
(* loop in the order written, each once and whole, with its own registered *)
(* flag and port name: a pass of the main loop over the ring buffer leaves *)
(* it empty, has taken every record in turn and does not end the process.  *)
C37_NotificationsConsumedInOrder ==
    [][last'.ev = "check_for_new_ports"
       => /\ ~jackpatch_aborted'
          /\ ringbuffer' = << >>
          /\ g_known_ports' = KnownAfter(g_known_ports, ringbuffer)]_vars

(* the step of daemon d answers /nsm/server/open with one of the errors of *)
(* load_session_file                                                       *)
OpenFails(d) ==
    /\ last'.d = d
    /\ \E k \in 1..Len(out') :
          /\ out'[k].path = "/error"
          /\ out'[k].args[1] = "/nsm/server/open"
          /\ out'[k].args[2] \in {"no_such_file", "session_locked", "create_failed"}

(* C38: when /nsm/server/open fails with no_such_file, session_locked or   *)
(* create_failed while a session is open, the session path, the session    *)
(* name and the lock files are after the error reply what they were        *)
(* before the load.                                                        *)
C38_FailedOpenKeepsSession ==
    [][\A d \in Daemons :
        (OpenFails(d) /\ s_session_path[d] # NoPath) =>
            /\ s_session_path'[d] = s_session_path[d]
            /\ s_session_name'[d] = s_session_name[d]
            /\ locks' = locks]_vars

(* C39: a session whose manifest exists and has no client, as              *)
(* /nsm/server/new leaves it, can be opened when no session is open and no *)
(* lock is held on it: /nsm/server/open of its name is not answered with   *)
(* an error, replies "Loaded" when it ends and makes it the current        *)
(* session.                                                                *)
C39_EmptySessionOpens ==
    [][\A d \in Daemons :
        (/\ last'.d = d /\ last'.ev = "open"
         /\ last'.arg \in SessionNames
         /\ s_pending_operation[d] = "none"
         /\ s_session_path[d] = NoPath
         /\ files[last'.arg] = << >>
         /\ \A l \in locks : l.path # spath_of(last'.arg))
        => /\ \A k \in 1..Len(out') : out'[k].path # "/error"
           /\ s_pending_operation'[d] = "none"
                => \E k \in 1..Len(out') :
                      out'[k] = Msg(last'.src, "/reply", <<"/nsm/server/open", "Loaded">>)
           /\ s_session_path'[d] = spath_of(last'.arg)]_vars

(* C40: SIGKILL is sent only to a client whose pending command is quit or  *)
(* kill: every SIGKILL of a step goes to the pid of a record that had one  *)
(* of these pending before the step, never to a client kept for the switch *)
(* of sessions.                                                            *)
C40_SigkillOnlyQuitOrKill ==
    [][\A d \in Daemons :
        last'.d = d =>
            \A k \in 1..Len(out') :
                out'[k].path = "SIGKILL"
                => \E i \in Idx(s_client_list[d]) :
                      /\ s_client_list[d][i].pid = out'[k].pid
                      /\ s_client_list[d][i].pending \in {"quit", "kill"}]_vars
====
